---- MODULE Spec2Model ----
(***************************************************************************)
(* Vibecoding Chronicle: the import pipeline (record parser, the three     *)
(* format adapters, the orchestrator), the storage accessors it calls and  *)
(* the change watcher, as state machines.                                  *)
(*                                                                         *)
(* Conventions for JavaScript values:                                      *)
(*   - an atom (a type tag, an id, a timestamp) is a TLA+ string; the      *)
(*     string "undefined" stands for undefined/null;                      *)
(*   - a text (content, summary, a path) is a sequence of one-character    *)
(*     strings; the one-element sequence <<"null">> stands for null;       *)
(*   - the text of a file is a sequence of lexical chunks: a line break,   *)
(*     a run of other white space, a run of characters that is no JSON,    *)
(*     or the text of one JSON value.                                      *)
(***************************************************************************)
EXTENDS Integers, Sequences, FiniteSets, TLC

VARIABLES
    pIn,        \* parser harness: the file handed to the parser
    pOut,       \* parser harness: what the parser returned
    fs,         \* the source directories of the three tools
    dbSessions, \* table sessions
    dbMessages, \* table messages
    inflight,   \* importCodexSessions calls awaiting their file enumeration
    last,       \* the adapter call that ended last, and how
    calls,      \* number of adapter calls made so far
    orch,       \* importAllSessions: the call in progress
    watch,      \* the watcher: its timer, the timers pending, what it saw
    dbStars,    \* table stars
    dbSeq,      \* the last row id table stars handed out (AUTOINCREMENT)
    dbTags,     \* table tags
    res         \* the answer of the route handler that ran last

parseVars == <<pIn, pOut>>

dbVars == <<dbSessions, dbMessages>>

importVars == <<fs, dbSessions, dbMessages, inflight, last, calls>>

apiVars == <<dbStars, dbSeq, dbTags, res>>

vars == <<pIn, pOut, fs, dbSessions, dbMessages, inflight, last, calls, orch, watch,
          dbStars, dbSeq, dbTags, res>>

---------------------------------------------------------------------------
(* JavaScript values *)

Undefined == "undefined"

NullT == <<"null">>

\* truthiness of an atom: undefined, null and '' are falsy
TruthyA(a) == a \notin {Undefined, ""}

\* truthiness of a text: null and '' are falsy
TruthyT(t) == t # NullT /\ t # <<>>

---------------------------------------------------------------------------
(* Raw JSON values *)

NoContent == [kind |-> "undefined", str |-> NullT, parts |-> <<>>]

StringContent(t) == [kind |-> "string", str |-> t, parts |-> <<>>]

ListContent(ps) == [kind |-> "list", str |-> NullT, parts |-> ps]

TextPart(t) == [type |-> "text", text |-> t, thinking |-> NullT, output_text |-> NullT]

ThinkingPart(t) == [type |-> "thinking", text |-> NullT, thinking |-> t, output_text |-> NullT]

InputTextPart(t) == [type |-> "input_text", text |-> t, thinking |-> NullT, output_text |-> NullT]

OutputPart(t) == [type |-> "output_text", text |-> NullT, thinking |-> NullT, output_text |-> t]

\* a JSON object of a line-delimited file, with the properties the adapters read
EmptyObj ==
    [kind      |-> "object",
     type      |-> Undefined,
     timestamp |-> Undefined,
     uuid      |-> Undefined,
     summary   |-> NullT,
     message   |-> [present |-> FALSE, content |-> NoContent],
     content   |-> NoContent,
     payload   |-> [present |-> FALSE, role |-> Undefined, cwd |-> NullT,
                    content |-> NoContent]]

\* the JSON value null
JsonNull == [EmptyObj EXCEPT !.kind = "null"]

\* lexical chunks of a file's text
NL == [c |-> "nl", v |-> JsonNull]

SP == [c |-> "sp", v |-> JsonNull]

Garbage == [c |-> "x", v |-> JsonNull]

Json(v) == [c |-> "json", v |-> v]

---------------------------------------------------------------------------
(* utils.js: the record parser *)

RECURSIVE SplitAcc(_, _, _)
SplitAcc(s, i, cur) ==
    IF i > Len(s) THEN <<cur>>
    ELSE IF s[i].c = "nl" THEN <<cur>> \o SplitAcc(s, i + 1, <<>>)
    ELSE SplitAcc(s, i + 1, Append(cur, s[i]))

\* content.split('\n')
SplitLines(content) == SplitAcc(content, 1, <<>>)

IsSpace(ch) == ch.c \in {"sp", "nl"}

RECURSIVE TrimLeft(_)
TrimLeft(line) ==
    IF line # <<>> /\ IsSpace(line[1]) THEN TrimLeft(Tail(line)) ELSE line

RECURSIVE TrimRight(_)
TrimRight(line) ==
    IF line # <<>> /\ IsSpace(line[Len(line)])
    THEN TrimRight(SubSeq(line, 1, Len(line) - 1))
    ELSE line

\* line.trim()
Trim(line) == TrimRight(TrimLeft(line))

\* JSON.parse(text): the text of exactly one JSON value (white space around it
\* allowed), anything else throws
JSONParse(text) ==
    LET t == Trim(text) IN
    IF Len(t) = 1 /\ t[1].c = "json"
    THEN [ok |-> TRUE, v |-> t[1].v]
    ELSE [ok |-> FALSE, v |-> JsonNull]

RECURSIVE ParseLinesAbort(_, _, _, _)
ParseLinesAbort(lines, i, messages, errors) ==
    IF i > Len(lines) THEN [messages |-> messages, errors |-> errors]
    ELSE LET trimmed == Trim(lines[i]) IN
         IF trimmed = <<>> THEN ParseLinesAbort(lines, i + 1, messages, errors)
         ELSE LET r == JSONParse(trimmed) IN
              IF r.ok THEN ParseLinesAbort(lines, i + 1, Append(messages, r.v), errors)
              ELSE [messages |-> messages, errors |-> errors + 1]

RECURSIVE ParseLines(_, _, _, _)
ParseLines(lines, i, messages, errors) ==
    IF i > Len(lines) THEN [messages |-> messages, errors |-> errors]
    ELSE LET trimmed == Trim(lines[i]) IN
         IF trimmed = <<>> THEN ParseLines(lines, i + 1, messages, errors)
         ELSE LET r == JSONParse(trimmed) IN
              IF r.ok THEN ParseLines(lines, i + 1, Append(messages, r.v), errors)
              ELSE ParseLines(lines, i + 1, messages, errors + 1)

\* parseJsonlFile(filePath): {messages, errors}; a file that cannot be read
\* gives {messages: [], errors: 1}
parseJsonlFile(file) ==
    IF ~file.readable THEN [messages |-> <<>>, errors |-> 1]
    ELSE ParseLines(SplitLines(file.content), 1, <<>>, 0)

\* parseJsonFile(filePath): the decoded document, or null
parseJsonFile(file) ==
    IF ~file.readable THEN [ok |-> FALSE, v |-> JsonNull]
    ELSE JSONParse(file.content)

\* generateMessageId(sessionId, index)
generateMessageId(sessionId, index) == sessionId \o "_" \o ToString(index)

\* a truncate that cuts nothing off
truncateNot(text, length) == IF ~TruthyT(text) THEN <<>> ELSE text

\* truncate(text, length)
truncate(text, length) ==
    IF ~TruthyT(text) THEN <<>>
    ELSE IF Len(text) > length THEN SubSeq(text, 1, length) \o <<".", ".", ".">>
    ELSE text

---------------------------------------------------------------------------
(* Texts *)

RECURSIVE JoinT(_, _)
\* parts.join(sep)
JoinT(parts, sep) ==
    IF parts = <<>> THEN <<>>
    ELSE IF Len(parts) = 1 THEN parts[1]
    ELSE parts[1] \o sep \o JoinT(Tail(parts), sep)

RECURSIVE SplitOn(_, _, _, _)
\* text.split(ch), from position i on with the piece cur open
SplitOn(text, ch, i, cur) ==
    IF i > Len(text) THEN <<cur>>
    ELSE IF text[i] = ch THEN <<cur>> \o SplitOn(text, ch, i + 1, <<>>)
    ELSE SplitOn(text, ch, i + 1, Append(cur, text[i]))

\* text.startsWith(prefix)
StartsWith(text, prefix) ==
    /\ Len(text) >= Len(prefix)
    /\ SubSeq(text, 1, Len(prefix)) = prefix

\* text.includes(ch) for a one-character ch
IncludesChar(text, ch) == \E i \in 1..Len(text) : text[i] = ch

---------------------------------------------------------------------------
(* utils/index.js: the regular expressions of SECRET_PATTERNS and maskSecrets *)

Lower == {"a", "b", "c", "d", "e", "f", "g", "h", "i", "j", "k", "l", "m", "n", "o", "p", "q", "r", "s", "t", "u", "v", "w", "x", "y", "z"}

Upper == {"A", "B", "C", "D", "E", "F", "G", "H", "I", "J", "K", "L", "M", "N", "O", "P", "Q", "R", "S", "T", "U", "V", "W", "X", "Y", "Z"}

Digit == {"0", "1", "2", "3", "4", "5", "6", "7", "8", "9"}

\* [a-zA-Z0-9]
Alnum == Lower \cup Upper \cup Digit

\* \s
WhiteSpace == {" ", "\t", "\n", "\r"}

\* ["']
Quote == {"\"", "'"}

\* [a-zA-Z0-9\-_.~+/]
TokenChar == Alnum \cup {"-", "_", ".", "~", "+", "/"}

LowerSeq == <<"a", "b", "c", "d", "e", "f", "g", "h", "i", "j", "k", "l", "m", "n", "o", "p", "q", "r", "s", "t", "u", "v", "w", "x", "y", "z">>

UpperSeq == <<"A", "B", "C", "D", "E", "F", "G", "H", "I", "J", "K", "L", "M", "N", "O", "P", "Q", "R", "S", "T", "U", "V", "W", "X", "Y", "Z">>

\* the two cases of a character, for a literal under the flag i
BothCases(ch) ==
    IF \E k \in 1..Len(LowerSeq) : ch \in {LowerSeq[k], UpperSeq[k]}
    THEN LET k == CHOOSE k \in 1..Len(LowerSeq) : ch \in {LowerSeq[k], UpperSeq[k]}
         IN {LowerSeq[k], UpperSeq[k]}
    ELSE {ch}

\* one element of a pattern: a literal (lit, the characters each of its
\* places takes), or a character class (neg: its complement) with a
\* quantifier {min,max}; max = -1 is no upper limit; lazy is the suffix ?
Item(lit, set, neg, min, max, lazy) ==
    [lit |-> lit, set |-> set, neg |-> neg, min |-> min, max |-> max, lazy |-> lazy]

\* [set]
One(set) == <<Item(<<>>, set, FALSE, 1, 1, FALSE)>>

\* [set]?
Opt(set) == <<Item(<<>>, set, FALSE, 0, 1, FALSE)>>

\* [set]*
Star(set) == <<Item(<<>>, set, FALSE, 0, -1, FALSE)>>

\* [set]+
Plus(set) == <<Item(<<>>, set, FALSE, 1, -1, FALSE)>>

\* [set]{n,}
AtLeast(set, n) == <<Item(<<>>, set, FALSE, n, -1, FALSE)>>

\* [set]{n}
Exactly(set, n) == <<Item(<<>>, set, FALSE, n, n, FALSE)>>

\* [^set]+
PlusNot(set) == <<Item(<<>>, set, TRUE, 1, -1, FALSE)>>

\* [\s\S]+?
PlusLazyAny == <<Item(<<>>, {}, TRUE, 1, -1, TRUE)>>

\* a literal
Lit(t) == <<Item([k \in 1..Len(t) |-> {t[k]}], {}, FALSE, Len(t), Len(t), FALSE)>>

\* a literal under the flag i
LitI(t) ==
    <<Item([k \in 1..Len(t) |-> BothCases(t[k])], {}, FALSE, Len(t), Len(t), FALSE)>>

\* one alternative of a pattern: its elements, the first group of which are
\* inside the capturing parentheses
Alt(items, group) == [items |-> items, group |-> group]

\* a rule of the list: the alternatives of the pattern in their order, and
\* the replacement that follows $1 (the whole replacement where the pattern
\* captures nothing)
Rule(alts, repl) == [alts |-> alts, repl |-> repl]

\* a character against a class
InClass(it, ch) == (ch \in it.set) # it.neg

\* a literal against the text at pos
LiteralAt(it, text, pos) ==
    /\ pos + Len(it.lit) - 1 <= Len(text)
    /\ \A k \in 1..Len(it.lit) : text[pos + k - 1] \in it.lit[k]

\* how many characters from pos on a class with its quantifier can take at
\* most
RunLength(it, text, pos) ==
    LET stop == CHOOSE i \in pos..(Len(text) + 1) :
                    /\ i = Len(text) + 1 \/ ~InClass(it, text[i])
                    /\ \A j \in pos..(i - 1) : InClass(it, text[j])
    IN IF it.max >= 0 /\ stop - pos > it.max THEN it.max ELSE stop - pos

RECURSIVE MatchItems(_, _, _, _)
RECURSIVE TryCounts(_, _, _, _, _, _, _)
\* the backtracking of a quantifier: n repetitions, then one less (greedy)
\* or one more (lazy), until the rest of the pattern matches
TryCounts(items, k, text, pos, n, stop, step) ==
    LET r == MatchItems(items, k + 1, text, pos + n)
    IN IF r # <<>> THEN <<pos>> \o r
       ELSE IF n = stop THEN <<>>
       ELSE TryCounts(items, k, text, pos, n + step, stop, step)

\* the elements k.. against the text at pos: where each element starts and
\* where the match ends, or <<>> for no match
MatchItems(items, k, text, pos) ==
    IF k > Len(items) THEN <<pos>>
    ELSE LET it == items[k]
             run == RunLength(it, text, pos)
         IN IF it.lit # <<>>
            THEN (IF LiteralAt(it, text, pos)
                  THEN TryCounts(items, k, text, pos, Len(it.lit), Len(it.lit), 0)
                  ELSE <<>>)
            ELSE IF run < it.min THEN <<>>
            ELSE IF it.lazy THEN TryCounts(items, k, text, pos, it.min, run, 1)
            ELSE TryCounts(items, k, text, pos, run, it.min, -1)

RECURSIVE MatchRule(_, _, _, _)
\* the alternatives a.. of a rule at pos: the match of the first that
\* matches
MatchRule(rule, a, text, pos) ==
    IF a > Len(rule.alts) THEN [found |-> FALSE, at |-> <<>>, group |-> 0]
    ELSE LET r == MatchItems(rule.alts[a].items, 1, text, pos)
         IN IF r # <<>> THEN [found |-> TRUE, at |-> r, group |-> rule.alts[a].group]
            ELSE MatchRule(rule, a + 1, text, pos)

\* what a match is replaced with: $1, then the rest of the replacement
Replacement(rule, text, m) ==
    SubSeq(text, m.at[1], m.at[m.group + 1] - 1) \o rule.repl

RECURSIVE ReplaceFrom(_, _, _)
\* text.replace(pattern, replacement) under the flag g, from pos on: the
\* leftmost match is replaced and the search goes on behind it
ReplaceFrom(rule, text, pos) ==
    IF \A i \in pos..Len(text) : ~MatchRule(rule, 1, text, i).found
    THEN SubSeq(text, pos, Len(text))
    ELSE LET at == CHOOSE i \in pos..Len(text) :
                      /\ MatchRule(rule, 1, text, i).found
                      /\ \A j \in pos..(i - 1) : ~MatchRule(rule, 1, text, j).found
             m == MatchRule(rule, 1, text, at)
         IN SubSeq(text, pos, at - 1) \o Replacement(rule, text, m)
               \o ReplaceFrom(rule, text, m.at[Len(m.at)])


\* SECRET_PATTERNS, in the order of the list
SECRET_PATTERNS ==
    <<
       \* /sk-[a-zA-Z0-9]{20,}
       Rule(<<Alt(Lit(<<"s", "k", "-">>) \o AtLeast(Alnum, 20), 0)>>,
            <<"s", "k", "-", "*", "*", "*", "A", "P", "I", "_", "K", "E", "Y", "*", "*", "*">>),
       \* /sk-proj-[a-zA-Z0-9\-_]{20,}
       Rule(<<Alt(Lit(<<"s", "k", "-", "p", "r", "o", "j", "-">>)
                      \o AtLeast(Alnum \cup {"-", "_"}, 20), 0)>>,
            <<"s", "k", "-", "p", "r", "o", "j", "-", "*", "*", "*", "A", "P", "I", "_", "K", "E", "Y", "*", "*", "*">>),
       \* /sk-ant-[a-zA-Z0-9\-_]{20,}
       Rule(<<Alt(Lit(<<"s", "k", "-", "a", "n", "t", "-">>)
                      \o AtLeast(Alnum \cup {"-", "_"}, 20), 0)>>,
            <<"s", "k", "-", "a", "n", "t", "-", "*", "*", "*", "A", "P", "I", "_", "K", "E", "Y", "*", "*", "*">>),
       \* /ghp_[a-zA-Z0-9]{36,}
       Rule(<<Alt(Lit(<<"g", "h", "p", "_">>) \o AtLeast(Alnum, 36), 0)>>,
            <<"g", "h", "p", "_", "*", "*", "*", "G", "I", "T", "H", "U", "B", "_", "T", "O", "K", "E", "N", "*", "*", "*">>),
       \* /gho_[a-zA-Z0-9]{36,}
       Rule(<<Alt(Lit(<<"g", "h", "o", "_">>) \o AtLeast(Alnum, 36), 0)>>,
            <<"g", "h", "o", "_", "*", "*", "*", "G", "I", "T", "H", "U", "B", "_", "T", "O", "K", "E", "N", "*", "*", "*">>),
       \* /github_pat_[a-zA-Z0-9_]{22,}
       Rule(<<Alt(Lit(<<"g", "i", "t", "h", "u", "b", "_", "p", "a", "t", "_">>)
                      \o AtLeast(Alnum \cup {"_"}, 22), 0)>>,
            <<"g", "i", "t", "h", "u", "b", "_", "p", "a", "t", "_", "*", "*", "*", "T", "O", "K", "E", "N", "*", "*", "*">>),
       \* /AKIA[0-9A-Z]{16}
       Rule(<<Alt(Lit(<<"A", "K", "I", "A">>) \o Exactly(Digit \cup Upper, 16), 0)>>,
            <<"A", "K", "I", "A", "*", "*", "*", "A", "W", "S", "_", "K", "E", "Y", "*", "*", "*">>),
       \* /xox[baprs]-[a-zA-Z0-9\-]{10,}
       Rule(<<Alt(Lit(<<"x", "o", "x">>) \o One({"b", "a", "p", "r", "s"}) \o Lit(<<"-">>)
                      \o AtLeast(Alnum \cup {"-"}, 10), 0)>>,
            <<"x", "o", "x", "*", "-", "*", "*", "*", "S", "L", "A", "C", "K", "_", "T", "O", "K", "E", "N", "*", "*", "*">>),
       \* /eyJ[a-zA-Z0-9\-_]+\.eyJ[a-zA-Z0-9\-_]+\.[a-zA-Z0-9\-_]+
       Rule(<<Alt(Lit(<<"e", "y", "J">>) \o Plus(Alnum \cup {"-", "_"})
                      \o Lit(<<".", "e", "y", "J">>) \o Plus(Alnum \cup {"-", "_"}) \o Lit(<<".">>)
                      \o Plus(Alnum \cup {"-", "_"}), 0)>>,
            <<"*", "*", "*", "J", "W", "T", "_", "T", "O", "K", "E", "N", "*", "*", "*">>),
       \* /Bearer\s+[a-zA-Z0-9\-_.~+/]+=* under gi
       Rule(<<Alt(LitI(<<"B", "e", "a", "r", "e", "r">>) \o Plus(WhiteSpace) \o Plus(TokenChar)
                      \o Star({"="}), 0)>>,
            <<"B", "e", "a", "r", "e", "r", " ", "*", "*", "*", "T", "O", "K", "E", "N", "*", "*", "*">>),
       \* /Authorization:\s*["']?[a-zA-Z0-9\-_.~+/]+=*["']? under gi
       Rule(<<Alt(LitI(<<"A", "u", "t", "h", "o", "r", "i", "z", "a", "t", "i", "o", "n", ":">>)
                      \o Star(WhiteSpace) \o Opt(Quote) \o Plus(TokenChar) \o Star({"="}) \o Opt(Quote), 0)>>,
            <<"A", "u", "t", "h", "o", "r", "i", "z", "a", "t", "i", "o", "n", ":", " ", "*", "*", "*", "R", "E", "D", "A", "C", "T", "E", "D", "*", "*", "*">>),
       \* /(mysql|postgres|postgresql|mongodb|redis):\/\/[^:]+:[^@]+@ under gi
       Rule(<<Alt(LitI(<<"m", "y", "s", "q", "l">>) \o Lit(<<":", "/", "/">>) \o PlusNot({":"})
                      \o Lit(<<":">>) \o PlusNot({"@"}) \o Lit(<<"@">>), 1),
                Alt(LitI(<<"p", "o", "s", "t", "g", "r", "e", "s">>) \o Lit(<<":", "/", "/">>)
                      \o PlusNot({":"}) \o Lit(<<":">>) \o PlusNot({"@"}) \o Lit(<<"@">>), 1),
                Alt(LitI(<<"p", "o", "s", "t", "g", "r", "e", "s", "q", "l">>)
                      \o Lit(<<":", "/", "/">>) \o PlusNot({":"}) \o Lit(<<":">>) \o PlusNot({"@"})
                      \o Lit(<<"@">>), 1),
                Alt(LitI(<<"m", "o", "n", "g", "o", "d", "b">>) \o Lit(<<":", "/", "/">>)
                      \o PlusNot({":"}) \o Lit(<<":">>) \o PlusNot({"@"}) \o Lit(<<"@">>), 1),
                Alt(LitI(<<"r", "e", "d", "i", "s">>) \o Lit(<<":", "/", "/">>) \o PlusNot({":"})
                      \o Lit(<<":">>) \o PlusNot({"@"}) \o Lit(<<"@">>), 1)>>,
            <<":", "/", "/", "*", "*", "*", ":", "*", "*", "*", "@">>),
       \* /(mongodb\+srv):\/\/[^:]+:[^@]+@ under gi
       Rule(<<Alt(LitI(<<"m", "o", "n", "g", "o", "d", "b", "+", "s", "r", "v">>)
                      \o Lit(<<":", "/", "/">>) \o PlusNot({":"}) \o Lit(<<":">>) \o PlusNot({"@"})
                      \o Lit(<<"@">>), 1)>>,
            <<":", "/", "/", "*", "*", "*", ":", "*", "*", "*", "@">>),
       \* /password["']?\s*[:=]\s*["'][^"']+["'] under gi
       Rule(<<Alt(LitI(<<"p", "a", "s", "s", "w", "o", "r", "d">>) \o Opt(Quote)
                      \o Star(WhiteSpace) \o One({":", "="}) \o Star(WhiteSpace) \o One(Quote)
                      \o PlusNot(Quote) \o One(Quote), 0)>>,
            <<"p", "a", "s", "s", "w", "o", "r", "d", "=", "*", "*", "*", "R", "E", "D", "A", "C", "T", "E", "D", "*", "*", "*">>),
       \* /passwd["']?\s*[:=]\s*["'][^"']+["'] under gi
       Rule(<<Alt(LitI(<<"p", "a", "s", "s", "w", "d">>) \o Opt(Quote) \o Star(WhiteSpace)
                      \o One({":", "="}) \o Star(WhiteSpace) \o One(Quote) \o PlusNot(Quote)
                      \o One(Quote), 0)>>,
            <<"p", "a", "s", "s", "w", "d", "=", "*", "*", "*", "R", "E", "D", "A", "C", "T", "E", "D", "*", "*", "*">>),
       \* /secret["']?\s*[:=]\s*["'][^"']+["'] under gi
       Rule(<<Alt(LitI(<<"s", "e", "c", "r", "e", "t">>) \o Opt(Quote) \o Star(WhiteSpace)
                      \o One({":", "="}) \o Star(WhiteSpace) \o One(Quote) \o PlusNot(Quote)
                      \o One(Quote), 0)>>,
            <<"s", "e", "c", "r", "e", "t", "=", "*", "*", "*", "R", "E", "D", "A", "C", "T", "E", "D", "*", "*", "*">>),
       \* /api_key["']?\s*[:=]\s*["'][^"']+["'] under gi
       Rule(<<Alt(LitI(<<"a", "p", "i", "_", "k", "e", "y">>) \o Opt(Quote) \o Star(WhiteSpace)
                      \o One({":", "="}) \o Star(WhiteSpace) \o One(Quote) \o PlusNot(Quote)
                      \o One(Quote), 0)>>,
            <<"a", "p", "i", "_", "k", "e", "y", "=", "*", "*", "*", "R", "E", "D", "A", "C", "T", "E", "D", "*", "*", "*">>),
       \* /apikey["']?\s*[:=]\s*["'][^"']+["'] under gi
       Rule(<<Alt(LitI(<<"a", "p", "i", "k", "e", "y">>) \o Opt(Quote) \o Star(WhiteSpace)
                      \o One({":", "="}) \o Star(WhiteSpace) \o One(Quote) \o PlusNot(Quote)
                      \o One(Quote), 0)>>,
            <<"a", "p", "i", "k", "e", "y", "=", "*", "*", "*", "R", "E", "D", "A", "C", "T", "E", "D", "*", "*", "*">>),
       \* /token["']?\s*[:=]\s*["'][^"']+["'] under gi
       Rule(<<Alt(LitI(<<"t", "o", "k", "e", "n">>) \o Opt(Quote) \o Star(WhiteSpace)
                      \o One({":", "="}) \o Star(WhiteSpace) \o One(Quote) \o PlusNot(Quote)
                      \o One(Quote), 0)>>,
            <<"t", "o", "k", "e", "n", "=", "*", "*", "*", "R", "E", "D", "A", "C", "T", "E", "D", "*", "*", "*">>),
       \* /([A-Z_]+_KEY)\s*=\s*[^\s\n]+
       Rule(<<Alt(Plus(Upper \cup {"_"}) \o Lit(<<"_", "K", "E", "Y">>) \o Star(WhiteSpace)
                      \o Lit(<<"=">>) \o Star(WhiteSpace) \o PlusNot(WhiteSpace), 2)>>,
            <<"=", "*", "*", "*", "R", "E", "D", "A", "C", "T", "E", "D", "*", "*", "*">>),
       \* /([A-Z_]+_SECRET)\s*=\s*[^\s\n]+
       Rule(<<Alt(Plus(Upper \cup {"_"}) \o Lit(<<"_", "S", "E", "C", "R", "E", "T">>)
                      \o Star(WhiteSpace) \o Lit(<<"=">>) \o Star(WhiteSpace) \o PlusNot(WhiteSpace), 2)>>,
            <<"=", "*", "*", "*", "R", "E", "D", "A", "C", "T", "E", "D", "*", "*", "*">>),
       \* /([A-Z_]+_TOKEN)\s*=\s*[^\s\n]+
       Rule(<<Alt(Plus(Upper \cup {"_"}) \o Lit(<<"_", "T", "O", "K", "E", "N">>)
                      \o Star(WhiteSpace) \o Lit(<<"=">>) \o Star(WhiteSpace) \o PlusNot(WhiteSpace), 2)>>,
            <<"=", "*", "*", "*", "R", "E", "D", "A", "C", "T", "E", "D", "*", "*", "*">>),
       \* /([A-Z_]+_PASSWORD)\s*=\s*[^\s\n]+
       Rule(<<Alt(Plus(Upper \cup {"_"}) \o Lit(<<"_", "P", "A", "S", "S", "W", "O", "R", "D">>)
                      \o Star(WhiteSpace) \o Lit(<<"=">>) \o Star(WhiteSpace) \o PlusNot(WhiteSpace), 2)>>,
            <<"=", "*", "*", "*", "R", "E", "D", "A", "C", "T", "E", "D", "*", "*", "*">>),
       \* /-----BEGIN [A-Z ]+ PRIVATE KEY-----[\s\S]+?-----END [A-Z ]+ PRIVATE KEY-----
       Rule(<<Alt(Lit(<<"-", "-", "-", "-", "-", "B", "E", "G", "I", "N", " ">>)
                      \o Plus(Upper \cup {" "})
                      \o Lit(<<" ", "P", "R", "I", "V", "A", "T", "E", " ", "K", "E", "Y", "-", "-", "-", "-", "-">>)
                      \o PlusLazyAny \o Lit(<<"-", "-", "-", "-", "-", "E", "N", "D", " ">>)
                      \o Plus(Upper \cup {" "})
                      \o Lit(<<" ", "P", "R", "I", "V", "A", "T", "E", " ", "K", "E", "Y", "-", "-", "-", "-", "-">>), 0)>>,
            <<"-", "-", "-", "-", "-", "B", "E", "G", "I", "N", " ", "P", "R", "I", "V", "A", "T", "E", " ", "K", "E", "Y", "-", "-", "-", "-", "-", "\n", "*", "*", "*", "R", "E", "D", "A", "C", "T", "E", "D", "*", "*", "*", "\n", "-", "-", "-", "-", "-", "E", "N", "D", " ", "P", "R", "I", "V", "A", "T", "E", " ", "K", "E", "Y", "-", "-", "-", "-", "-">>),
       \* /ssh-rsa\s+[A-Za-z0-9+/=]+
       Rule(<<Alt(Lit(<<"s", "s", "h", "-", "r", "s", "a">>) \o Plus(WhiteSpace)
                      \o Plus(Alnum \cup {"+", "/", "="}), 0)>>,
            <<"s", "s", "h", "-", "r", "s", "a", " ", "*", "*", "*", "R", "E", "D", "A", "C", "T", "E", "D", "*", "*", "*">>),
       \* /ssh-ed25519\s+[A-Za-z0-9+/=]+
       Rule(<<Alt(Lit(<<"s", "s", "h", "-", "e", "d", "2", "5", "5", "1", "9">>)
                      \o Plus(WhiteSpace) \o Plus(Alnum \cup {"+", "/", "="}), 0)>>,
            <<"s", "s", "h", "-", "e", "d", "2", "5", "5", "1", "9", " ", "*", "*", "*", "R", "E", "D", "A", "C", "T", "E", "D", "*", "*", "*">>),
       \* /(client_secret)["']?\s*[:=]\s*["'][^"']+["'] under gi
       Rule(<<Alt(LitI(<<"c", "l", "i", "e", "n", "t", "_", "s", "e", "c", "r", "e", "t">>)
                      \o Opt(Quote) \o Star(WhiteSpace) \o One({":", "="}) \o Star(WhiteSpace)
                      \o One(Quote) \o PlusNot(Quote) \o One(Quote), 1)>>,
            <<"=", "*", "*", "*", "R", "E", "D", "A", "C", "T", "E", "D", "*", "*", "*">>),
       \* /(access_token)["']?\s*[:=]\s*["'][^"']+["'] under gi
       Rule(<<Alt(LitI(<<"a", "c", "c", "e", "s", "s", "_", "t", "o", "k", "e", "n">>)
                      \o Opt(Quote) \o Star(WhiteSpace) \o One({":", "="}) \o Star(WhiteSpace)
                      \o One(Quote) \o PlusNot(Quote) \o One(Quote), 1)>>,
            <<"=", "*", "*", "*", "R", "E", "D", "A", "C", "T", "E", "D", "*", "*", "*">>)
    >>

RECURSIVE ApplyRules(_, _, _)
\* for (const [pattern, replacement] of SECRET_PATTERNS) masked = masked.replace(...)
ApplyRules(rules, k, masked) ==
    IF k > Len(rules) THEN masked
    ELSE ApplyRules(rules, k + 1, ReplaceFrom(rules[k], masked, 1))

\* a masking that leaves every text as it is
maskSecretsNothing(text) == text

\* maskSecrets(text)
maskSecrets(text) ==
    IF ~TruthyT(text) THEN text
    ELSE ApplyRules(SECRET_PATTERNS, 1, text)

---------------------------------------------------------------------------
(* db/index.js: the storage accessors the importers call *)

\* an accessor that never finds the id
sessionExistsNever(sessions, id) == FALSE

\* sessionExists(id)
sessionExists(sessions, id) == \E s \in sessions : s.id = id

\* an upsert that replaces the whole row of the id (INSERT OR REPLACE)
upsertSessionReplace(sessions, session) ==
    {r \in sessions : r.id # session.id} \cup {session}

\* upsertSession(session): INSERT ... ON CONFLICT(id) DO UPDATE SET
\* message_count, ended_at, summary
upsertSession(sessions, session) ==
    IF sessionExists(sessions, session.id)
    THEN {IF r.id = session.id
          THEN [r EXCEPT !.message_count = session.message_count,
                         !.ended_at = session.ended_at,
                         !.summary = session.summary]
          ELSE r : r \in sessions}
    ELSE sessions \cup {session}

\* the row insertMessages binds for one message
MessageRow(sessionId, msg) ==
    [id         |-> msg.id,
     session_id |-> sessionId,
     type       |-> msg.type,
     content    |-> IF TruthyT(msg.content) THEN msg.content ELSE NullT,
     timestamp  |-> IF TruthyA(msg.timestamp) THEN msg.timestamp ELSE Undefined,
     tool_name  |-> NullT,
     tool_input |-> NullT,
     tool_output |-> NullT,
     thinking   |-> IF TruthyT(msg.thinking) THEN msg.thinking ELSE NullT,
     position   |-> msg.position]

\* INSERT OR REPLACE INTO messages: id is the table's primary key
InsertOrReplace(messages, row) == {m \in messages : m.id # row.id} \cup {row}

RECURSIVE InsertRows(_, _, _)
\* insertMany(msgs): stmt.run for each message of the batch, in order
InsertRows(messages, sessionId, msgs) ==
    IF msgs = <<>> THEN messages
    ELSE InsertRows(InsertOrReplace(messages, MessageRow(sessionId, msgs[1])),
                    sessionId, Tail(msgs))

\* an insert that numbers the rows of a batch 0, 1, 2, ...
insertMessagesRenumbered(messages, sessionId, msgs) ==
    InsertRows(messages, sessionId,
               [k \in 1..Len(msgs) |-> [msgs[k] EXCEPT !.position = k - 1]])

\* insertMessages(sessionId, messages): one transaction over the batch
insertMessages(messages, sessionId, msgs) == InsertRows(messages, sessionId, msgs)

\* getMessages(sessionId), as a set of rows
getMessages(messages, sessionId) == {m \in messages : m.session_id = sessionId}

\* getSession(id): the row, as a set of one row, or no row
getSession(sessions, id) == {s \in sessions : s.id = id}

\* getStarsForSession(sessionId)
getStarsForSession(stars, sessionId) == {r \in stars : r.session_id = sessionId}

\* initDefaultTags(): the rows of table tags on first run
defaultTags ==
    {[id |-> <<"t", "r", "o", "u", "b", "l", "e", "s", "h", "o", "o", "t", "i", "n", "g">>, label |-> "Troubleshooting", position |-> 0],
     [id |-> <<"b", "e", "s", "t", "-", "p", "r", "a", "c", "t", "i", "c", "e">>, label |-> "Best Practice", position |-> 1],
     [id |-> <<"l", "e", "s", "s", "o", "n">>, label |-> "Lesson", position |-> 2]}

\* UNIQUE(session_id, message_id, tag) of table stars
StarKey(row) == <<row.session_id, row.message_id, row.tag>>

\* an insert into a table stars that has no UNIQUE constraint
addTagAlways(stars, seq, sessionId, messageId, tag, note) ==
    [stars |-> stars \cup {[id |-> seq + 1, session_id |-> sessionId,
                            message_id |-> messageId, tag |-> tag, note |-> note]},
     seq   |-> seq + 1]

\* addTag(sessionId, messageId, tag, note): INSERT OR IGNORE INTO stars
addTag(stars, seq, sessionId, messageId, tag, note) ==
    IF \E r \in stars : StarKey(r) = <<sessionId, messageId, tag>>
    THEN [stars |-> stars, seq |-> seq]
    ELSE [stars |-> stars \cup {[id |-> seq + 1, session_id |-> sessionId,
                                 message_id |-> messageId, tag |-> tag, note |-> note]},
          seq   |-> seq + 1]

\* removeTag(sessionId, messageId, tag)
removeTag(stars, sessionId, messageId, tag) ==
    {r \in stars : StarKey(r) # <<sessionId, messageId, tag>>}

\* getMessageTags(sessionId, messageId), as a set of tags
getMessageTags(stars, sessionId, messageId) ==
    {r.tag : r \in {q \in stars : q.session_id = sessionId /\ q.message_id = messageId}}

\* deleteStar(sessionId, messageId)
deleteStar(stars, sessionId, messageId) ==
    {r \in stars : ~(r.session_id = sessionId /\ r.message_id = messageId)}

\* getTagUsageCount(tagId): SELECT COUNT(*) FROM stars WHERE tag = ?
getTagUsageCount(stars, id) == Cardinality({r \in stars : r.tag = id})

\* a deleteTag that does not look at table stars
deleteTagAlways(tags, stars, id) ==
    [error |-> Undefined, count |-> 0, tags |-> {t \in tags : t.id # id}]

\* deleteTag(id)
deleteTag(tags, stars, id) ==
    IF getTagUsageCount(stars, id) > 0
    THEN [error |-> "Tag is in use", count |-> getTagUsageCount(stars, id), tags |-> tags]
    ELSE [error |-> Undefined, count |-> 0, tags |-> {t \in tags : t.id # id}]

\* no route handler has answered yet
NoResponse ==
    [route |-> "none", req |-> [id |-> Undefined], n |-> 0, status |-> 0,
     body |-> [success |-> FALSE]]

\* tables stars and tags after initDatabase(), no request served
ApiIdle ==
    /\ dbStars = {}
    /\ dbSeq = 0
    /\ dbTags = defaultTags
    /\ res = NoResponse

---------------------------------------------------------------------------
(* One adapter call: the state its loop over the files carries *)

\* a storage call that throws: the op-th kind of call made for the k-th file
\* the loop reaches (k = 0: none)
NoFault == [file |-> 0, op |-> "none"]

RunStart(sessions, messages) ==
    [sessions |-> sessions, messages |-> messages, imported |-> 0,
     threw |-> FALSE, k |-> 0, trace |-> <<>>]

\* what happened to one file: ev is "exists" (skipped, id known), "empty"
\* (skipped, no records), "imported" or "threw"; count is the message_count
\* stored and rows the number of rows the session had right afterwards;
\* imported and stored are the running count and the number of sessions
\* in the table once the file is dealt with
Event(st, id, ev, count, rows, name) ==
    [k |-> st.k, id |-> id, ev |-> ev, count |-> count, rows |-> rows, name |-> name,
     imported |-> st.imported, stored |-> Cardinality(st.sessions)]

Note(st, id, ev, name) ==
    [st EXCEPT !.trace = Append(@, Event(st, id, ev, 0, 0, name))]

Throw(st, id, name) ==
    [st EXCEPT !.threw = TRUE, !.trace = Append(@, Event(st, id, "threw", 0, 0, name))]

\* messages.length
MessageCountRaw(rawCount, messages) == rawCount

MessageCount(rawCount, messages) == Len(messages)

\* upsertSession(...); if (messages.length > 0) insertMessages(...); imported++
\* (codex.js 126-143; the same statements end claude.js and gemini.js)
StoreSession(st, row, msgs, fault, name) ==
    IF fault = [file |-> st.k, op |-> "upsert"] THEN Throw(st, row.id, name)
    ELSE LET s1 == upsertSession(st.sessions, row) IN
         IF Len(msgs) > 0 /\ fault = [file |-> st.k, op |-> "insert"]
         THEN Throw([st EXCEPT !.sessions = s1], row.id, name)
         ELSE LET m1 == IF Len(msgs) > 0
                        THEN insertMessages(st.messages, row.id, msgs)
                        ELSE st.messages
                  st1 == [st EXCEPT !.sessions = s1,
                                    !.messages = m1,
                                    !.imported = @ + 1]
              IN [st1 EXCEPT !.trace = Append(@, Event(st1, row.id, "imported",
                                          row.message_count,
                                          Cardinality(getMessages(m1, row.id)), name))]

---------------------------------------------------------------------------
(* importers/codex.js *)

EnvMarker == <<"<", "e", "n", "v", "i", "r", "o", "n", "m", "e", "n", "t", "_",
               "c", "o", "n", "t", "e", "x", "t", ">">>

UnknownProject == <<"u", "n", "k", "n", "o", "w", "n">>

SummaryLength == 200

\* part.text || part.output_text || ''
CodexPartText(part) ==
    IF TruthyT(part.text) THEN part.text
    ELSE IF TruthyT(part.output_text) THEN part.output_text
    ELSE <<>>

RECURSIVE CodexTextParts(_)
CodexTextParts(parts) ==
    IF parts = <<>> THEN <<>>
    ELSE LET text == CodexPartText(parts[1]) IN
         (IF TruthyT(text) THEN <<text>> ELSE <<>>) \o CodexTextParts(Tail(parts))

\* the content of a response_item: the newline-joined texts of its parts
CodexContent(payload) ==
    LET contentList == IF payload.content.kind = "list" THEN payload.content.parts
                       ELSE <<>>
        isArray == payload.content.kind # "string" \/ ~TruthyT(payload.content.str)
        textParts == CodexTextParts(contentList)
    IN IF isArray /\ Len(textParts) > 0 THEN JoinT(textParts, <<"\n">>) ELSE NullT

\* cwd.includes('/') ? cwd.split('/').pop() : cwd
CodexProject(cwd) ==
    IF IncludesChar(cwd, "/")
    THEN LET segs == SplitOn(cwd, "/", 1, <<>>) IN segs[Len(segs)]
    ELSE cwd

\* a test that lets every role through
IsMessageRoleAny(role) == TRUE

\* role === 'user' || role === 'assistant'
IsMessageRole(role) == role \in {"user", "assistant"}

CodexNormStart ==
    [projectName |-> NullT, summary |-> NullT, firstTs |-> Undefined,
     lastTs |-> Undefined, messages |-> <<>>, threw |-> FALSE]

\* the body of the loop over rawMessages, for the record at index i (from 0)
CodexRecord(n, msg, i, sessionId) ==
    IF msg.kind = "null" THEN [n EXCEPT !.threw = TRUE]   \* msg.type: TypeError
    ELSE
    LET ts == msg.timestamp
        n1 == IF TruthyA(ts)
              THEN [n EXCEPT !.firstTs = IF TruthyA(n.firstTs) THEN @ ELSE ts,
                             !.lastTs = ts]
              ELSE n
        payload == msg.payload
        cwd == IF payload.present /\ TruthyT(payload.cwd) THEN payload.cwd ELSE <<>>
        role == IF payload.present /\ TruthyA(payload.role) THEN payload.role ELSE ""
        content == IF payload.present THEN CodexContent(payload) ELSE NullT
    IN IF msg.type = "session_meta"
       THEN IF TruthyT(cwd) THEN [n1 EXCEPT !.projectName = CodexProject(cwd)] ELSE n1
       ELSE IF msg.type = "response_item" /\ IsMessageRole(role)
       THEN LET n2 == IF role = "user" /\ ~TruthyT(n1.summary) /\ TruthyT(content)
                         /\ ~StartsWith(content, EnvMarker)
                      THEN [n1 EXCEPT !.summary = truncate(content, SummaryLength)]
                      ELSE n1
            IN [n2 EXCEPT !.messages = Append(@,
                    [id        |-> generateMessageId(sessionId, i),
                     type      |-> role,
                     content   |-> content,
                     thinking  |-> NullT,
                     timestamp |-> ts,
                     position  |-> i])]
       ELSE n1

RECURSIVE CodexNormalize(_, _, _, _)
\* for (let i = 0; i < rawMessages.length; i++)
CodexNormalize(n, rawMessages, i, sessionId) ==
    IF n.threw \/ ~(i < Len(rawMessages)) THEN n
    ELSE CodexNormalize(CodexRecord(n, rawMessages[i + 1], i, sessionId),
                        rawMessages, i + 1, sessionId)

\* fileName.split('-').pop(): a file name is kept as its hyphen-separated pieces
CodexSessionId(name) == name[Len(name)]

\* the body of the loop over jsonlFiles for one file
CodexFile(st0, name, file, fault) ==
    LET st == [st0 EXCEPT !.k = @ + 1]
        sessionId == CodexSessionId(name)
    IN IF fault = [file |-> st.k, op |-> "exists"] THEN Throw(st, sessionId, name)
       ELSE IF sessionExists(st.sessions, sessionId) THEN Note(st, sessionId, "exists", name)
       ELSE LET rawMessages == parseJsonlFile(file).messages IN
            IF Len(rawMessages) = 0 THEN Note(st, sessionId, "empty", name)
            ELSE LET n == CodexNormalize(CodexNormStart, rawMessages, 0, sessionId) IN
                 IF n.threw THEN Throw(st, sessionId, name)
                 ELSE StoreSession(st,
                        [id            |-> sessionId,
                         tool          |-> "codex",
                         project       |-> IF TruthyT(n.projectName) THEN n.projectName
                                           ELSE UnknownProject,
                         project_path  |-> NullT,
                         started_at    |-> n.firstTs,
                         ended_at      |-> n.lastTs,
                         message_count |-> MessageCount(Len(rawMessages), n.messages),
                         summary       |-> n.summary],
                        n.messages, fault, name)

---------------------------------------------------------------------------
(* importers/claude.js *)

\* a JavaScript number, or undefined
JsNum(n) == [t |-> "number", n |-> n]

JsUndef == [t |-> "undefined", n |-> 0]

\* value.length: the property of an array; parseJsonlFile returns the object
\* {messages, errors}, which has none
PropLength(value) ==
    IF "length" \in DOMAIN value THEN JsNum(value.length) ELSE JsUndef

\* x === 0
StrictEq0(x) == x.t = "number" /\ x.n = 0

\* i < x (false when x is undefined)
JsLess(i, x) == x.t = "number" /\ i < x.n

\* extractProjectName(dirName)
extractProjectName(dirName) ==
    LET parts == SplitOn(dirName, "-", 1, <<>>) IN
    IF Len(parts) > 3 THEN JoinT(SubSeq(parts, 4, Len(parts)), <<"/">>) ELSE dirName

RECURSIVE ClaudeTextParts(_)
ClaudeTextParts(parts) ==
    IF parts = <<>> THEN <<>>
    ELSE (IF parts[1].type = "text"
          THEN <<IF TruthyT(parts[1].text) THEN parts[1].text ELSE <<>> >>
          ELSE <<>>) \o ClaudeTextParts(Tail(parts))

RECURSIVE ClaudeThinking(_, _)
\* the last thinking part wins
ClaudeThinking(parts, thinking) ==
    IF parts = <<>> THEN thinking
    ELSE ClaudeThinking(Tail(parts),
            IF parts[1].type = "thinking"
            THEN (IF TruthyT(parts[1].thinking) THEN parts[1].thinking ELSE <<>>)
            ELSE thinking)

\* extractMessageContent(msg)
extractMessageContent(msg) ==
    IF msg.message.present
    THEN LET c == msg.message.content IN
         IF c.kind = "string" THEN [content |-> c.str, thinking |-> NullT]
         ELSE IF c.kind = "list"
         THEN LET textParts == ClaudeTextParts(c.parts) IN
              [content  |-> IF Len(textParts) > 0 THEN JoinT(textParts, <<"\n">>)
                            ELSE NullT,
               thinking |-> ClaudeThinking(c.parts, NullT)]
         ELSE [content |-> NullT, thinking |-> NullT]
    ELSE IF msg.content.kind = "string" /\ TruthyT(msg.content.str)
    THEN [content |-> msg.content.str, thinking |-> NullT]
    ELSE [content |-> NullT, thinking |-> NullT]

ClaudeNormStart ==
    [summary |-> NullT, firstTs |-> Undefined, lastTs |-> Undefined,
     messages |-> <<>>, threw |-> FALSE]

\* the body of the loop over rawMessages, for the record at index i (from 0)
ClaudeRecord(n, msg, i, sessionId) ==
    IF msg.kind = "null" THEN [n EXCEPT !.threw = TRUE]   \* msg.type: TypeError
    ELSE
    LET ts == msg.timestamp
        n1 == IF msg.type = "summary"
              THEN [n EXCEPT !.summary = IF TruthyT(msg.summary) THEN msg.summary
                                         ELSE <<>>]
              ELSE n
        n2 == IF TruthyA(ts)
              THEN [n1 EXCEPT !.firstTs = IF TruthyA(n1.firstTs) THEN @ ELSE ts,
                              !.lastTs = ts]
              ELSE n1
    IN IF msg.type \in {"user", "assistant"}
       THEN LET e == extractMessageContent(msg) IN
            [n2 EXCEPT !.messages = Append(@,
                [id        |-> IF TruthyA(msg.uuid) THEN msg.uuid
                               ELSE generateMessageId(sessionId, i),
                 type      |-> msg.type,
                 content   |-> e.content,
                 thinking  |-> e.thinking,
                 timestamp |-> ts,
                 position  |-> i])]
       ELSE n2

RECURSIVE ClaudeNormalize(_, _, _, _, _)
\* for (let i = 0; i < rawMessages.length; i++), rawMessages being what
\* parseJsonlFile returned
ClaudeNormalize(n, rawMessages, length, i, sessionId) ==
    IF n.threw \/ ~JsLess(i, length) THEN n
    ELSE ClaudeNormalize(ClaudeRecord(n, rawMessages[i + 1], i, sessionId),
                         rawMessages, length, i + 1, sessionId)

\* the body of the loop over jsonlFiles for one file
ClaudeFile(st0, claudePath, dirName, f, fault) ==
    LET st == [st0 EXCEPT !.k = @ + 1]
        sessionId == f.stem
        name == Append(dirName, f.stem)
    IN IF fault = [file |-> st.k, op |-> "exists"] THEN Throw(st, sessionId, name)
       ELSE IF sessionExists(st.sessions, sessionId) THEN Note(st, sessionId, "exists", name)
       ELSE LET rawMessages == parseJsonlFile(f)
                length == PropLength(rawMessages)
            IN
            IF StrictEq0(length) THEN Note(st, sessionId, "empty", name)
            ELSE LET n == ClaudeNormalize(ClaudeNormStart, rawMessages, length, 0,
                                          sessionId) IN
                 IF n.threw THEN Throw(st, sessionId, name)
                 ELSE StoreSession(st,
                        [id            |-> sessionId,
                         tool          |-> "claude",
                         project       |-> extractProjectName(dirName),
                         project_path  |-> <<claudePath, "/">> \o dirName,
                         started_at    |-> n.firstTs,
                         ended_at      |-> n.lastTs,
                         message_count |-> MessageCount(0, n.messages),
                         summary       |-> n.summary],
                        n.messages, fault, name)

RECURSIVE ClaudeFiles(_, _, _, _, _)
\* for (const jsonlFile of jsonlFiles)
ClaudeFiles(st, claudePath, dirName, files, fault) ==
    IF st.threw \/ files = <<>> THEN st
    ELSE ClaudeFiles(IF files[1].ext = ".jsonl"
                     THEN ClaudeFile(st, claudePath, dirName, files[1], fault)
                     ELSE st,
                     claudePath, dirName, Tail(files), fault)

RECURSIVE ClaudeDirs(_, _, _, _)
\* for (const projectDir of projectDirs)
ClaudeDirs(st, claudePath, entries, fault) ==
    IF st.threw \/ entries = <<>> THEN st
    ELSE ClaudeDirs(IF entries[1].stat = "dir"
                    THEN ClaudeFiles(st, claudePath, entries[1].name,
                                     entries[1].files, fault)
                    ELSE st,
                    claudePath, Tail(entries), fault)

\* importClaudeSessions(claudePath), on the directory dir and the tables of st
importClaudeSessions(st, claudePath, dir, fault) ==
    IF ~dir.exists THEN st
    ELSE IF \E i \in 1..Len(dir.entries) : dir.entries[i].stat = "error"
    THEN [st EXCEPT !.threw = TRUE]             \* statSync throws in the filter
    ELSE ClaudeDirs(st, claudePath, dir.entries, fault)

---------------------------------------------------------------------------
(* importers/gemini.js *)

\* a session document and its messages, with the properties the adapter reads
EmptyDoc ==
    [kind        |-> "object",
     sessionId   |-> Undefined,
     projectHash |-> NullT,
     startTime   |-> Undefined,
     lastUpdated |-> Undefined,
     messages    |-> <<>>]

EmptyGMsg ==
    [kind      |-> "object",
     type      |-> Undefined,
     timestamp |-> Undefined,
     content   |-> NullT,
     id        |-> Undefined,
     thoughts  |-> <<>>]

RefMarker == <<"-", "-", "-", " ", "C", "o", "n", "t", "e", "n", "t", " ", "f", "r",
               "o", "m", " ", "r", "e", "f", "e", "r", "e", "n", "c", "e", "d", " ",
               "f", "i", "l", "e", "s", " ", "-", "-", "-">>

GeminiPrefix == <<"g", "e", "m", "i", "n", "i", "-">>

GeminiDefaultSummary == <<"G", "e", "m", "i", "n", "i", " ", "s", "e", "s", "s", "i", "o", "n">>

HashLength == 8

\* text.slice(0, n)
SliceTo(text, n) == SubSeq(text, 1, IF Len(text) < n THEN Len(text) ELSE n)

\* content.split(marker)[0]
BeforeMarker(text, marker) ==
    LET hits == {i \in 1..Len(text) :
                    /\ i + Len(marker) - 1 <= Len(text)
                    /\ SubSeq(text, i, i + Len(marker) - 1) = marker}
    IN IF hits = {} THEN text
       ELSE SubSeq(text, 1, (CHOOSE i \in hits : \A j \in hits : i <= j) - 1)

IsBlankChar(ch) == ch \in {" ", "\n", "\t", "\r"}

RECURSIVE TrimText(_)
\* text.trim()
TrimText(text) ==
    IF text # <<>> /\ IsBlankChar(text[1]) THEN TrimText(Tail(text))
    ELSE IF text # <<>> /\ IsBlankChar(text[Len(text)])
    THEN TrimText(SubSeq(text, 1, Len(text) - 1))
    ELSE text

RECURSIVE GeminiThinkingParts(_)
GeminiThinkingParts(thoughts) ==
    IF thoughts = <<>> THEN <<>>
    ELSE LET subject == IF TruthyT(thoughts[1].subject) THEN thoughts[1].subject ELSE <<>>
             desc == IF TruthyT(thoughts[1].description) THEN thoughts[1].description
                     ELSE <<>>
         IN (IF TruthyT(subject) \/ TruthyT(desc)
             THEN <<IF TruthyT(subject)
                    THEN <<"*", "*">> \o subject \o <<"*", "*", "\n">> \o desc
                    ELSE desc>>
             ELSE <<>>) \o GeminiThinkingParts(Tail(thoughts))

GeminiThinking(thoughts) ==
    LET thinkingParts == GeminiThinkingParts(thoughts) IN
    IF Len(thoughts) > 0 /\ Len(thinkingParts) > 0
    THEN JoinT(thinkingParts, <<"\n", "\n">>)
    ELSE NullT

GeminiNormStart == [summary |-> NullT, messages |-> <<>>, threw |-> FALSE]

\* the body of the loop over rawMessages, for the message at index i (from 0)
GeminiRecord(n, msg, i, sessionId) ==
    IF msg.kind = "null" THEN [n EXCEPT !.threw = TRUE]   \* msg.type: TypeError
    ELSE
    LET msgType == IF msg.type = "gemini" THEN "assistant" ELSE msg.type
        ts == msg.timestamp
        content == IF TruthyT(msg.content) THEN msg.content ELSE <<>>
        cleanContent == TrimText(BeforeMarker(content, RefMarker))
        n1 == IF msgType = "user" /\ ~TruthyT(n.summary) /\ TruthyT(content)
                 /\ TruthyT(cleanContent) /\ ~StartsWith(cleanContent, <<"/">>)
              THEN [n EXCEPT !.summary = truncate(cleanContent, SummaryLength)]
              ELSE n
    IN IF msg.type = "info" THEN n
       ELSE IF msgType \in {"user", "assistant"}
       THEN [n1 EXCEPT !.messages = Append(@,
                [id        |-> IF TruthyA(msg.id) THEN msg.id
                               ELSE generateMessageId(sessionId, i),
                 type      |-> msgType,
                 content   |-> content,
                 thinking  |-> GeminiThinking(msg.thoughts),
                 timestamp |-> ts,
                 position  |-> i])]
       ELSE n

RECURSIVE GeminiNormalize(_, _, _, _)
\* for (let i = 0; i < rawMessages.length; i++)
GeminiNormalize(n, rawMessages, i, sessionId) ==
    IF n.threw \/ ~(i < Len(rawMessages)) THEN n
    ELSE GeminiNormalize(GeminiRecord(n, rawMessages[i + 1], i, sessionId),
                         rawMessages, i + 1, sessionId)

\* the body of the loop over sessionFiles for one file
GeminiFile(st0, dirName, f, fault) ==
    LET st == [st0 EXCEPT !.k = @ + 1]
        name == <<dirName, f.stem>>
        parsed == parseJsonFile(f)
        sessionData == parsed.v
        sessionId == IF TruthyA(sessionData.sessionId) THEN sessionData.sessionId
                     ELSE f.stem
    IN IF ~parsed.ok \/ sessionData.kind = "null" THEN Note(st, f.stem, "empty", name)
       ELSE IF fault = [file |-> st.k, op |-> "exists"] THEN Throw(st, sessionId, name)
       ELSE IF sessionExists(st.sessions, sessionId) THEN Note(st, sessionId, "exists", name)
       ELSE LET projectHash == IF TruthyT(sessionData.projectHash)
                               THEN sessionData.projectHash ELSE UnknownProject
                rawMessages == sessionData.messages
            IN
            IF Len(rawMessages) = 0 THEN Note(st, sessionId, "empty", name)
            ELSE LET n == GeminiNormalize(GeminiNormStart, rawMessages, 0, sessionId) IN
                 IF n.threw THEN Throw(st, sessionId, name)
                 ELSE StoreSession(st,
                        [id            |-> sessionId,
                         tool          |-> "gemini",
                         project       |-> GeminiPrefix \o SliceTo(projectHash, HashLength),
                         project_path  |-> NullT,
                         started_at    |-> sessionData.startTime,
                         ended_at      |-> sessionData.lastUpdated,
                         message_count |-> MessageCount(Len(rawMessages), n.messages),
                         summary       |-> IF TruthyT(n.summary) THEN n.summary
                                           ELSE GeminiDefaultSummary],
                        n.messages, fault, name)

RECURSIVE GeminiFiles(_, _, _, _)
\* for (const sessionFile of sessionFiles)
GeminiFiles(st, dirName, files, fault) ==
    IF st.threw \/ files = <<>> THEN st
    ELSE GeminiFiles(IF files[1].session /\ files[1].ext = ".json"
                     THEN GeminiFile(st, dirName, files[1], fault)
                     ELSE st,
                     dirName, Tail(files), fault)

RECURSIVE GeminiDirs(_, _, _)
\* for (const tmpDir of tmpDirs)
GeminiDirs(st, entries, fault) ==
    IF st.threw \/ entries = <<>> THEN st
    ELSE GeminiDirs(IF entries[1].stat = "dir" /\ entries[1].chats.exists
                    THEN GeminiFiles(st, entries[1].name, entries[1].chats.files, fault)
                    ELSE st,
                    Tail(entries), fault)

\* importGeminiSessions(geminiPath), on the directory dir found at geminiPath
importGeminiSessions(st, dir, fault) ==
    IF ~dir.exists THEN st
    ELSE IF \E i \in 1..Len(dir.entries) : dir.entries[i].stat = "error"
    THEN [st EXCEPT !.threw = TRUE]             \* statSync throws in the filter
    ELSE GeminiDirs(st, dir.entries, fault)

---------------------------------------------------------------------------
(* server/routes.js: the handlers of a session, of stars and of a tag *)

\* input validation limits
LIMITS == [TAG_ID |-> 50, TAG_LABEL |-> 100, NOTE |-> 500, SEARCH_QUERY |-> 200]

\* validateString(value, maxLength, fieldName); a value that is no string
\* is written null
validateString(value, maxLength) ==
    IF value = NullT THEN [error |-> TRUE, value |-> <<>>]
    ELSE LET trimmed == TrimText(value)
         IN IF Len(trimmed) = 0 THEN [error |-> TRUE, value |-> <<>>]
            ELSE IF Len(trimmed) > maxLength THEN [error |-> TRUE, value |-> <<>>]
            ELSE [error |-> FALSE, value |-> trimmed]

\* what a handler answered: res.status(status).json(body), to request number
\* n, which had the parameters and the body req
Answer(prev, route, req, status, body) ==
    [route |-> route, req |-> req, n |-> prev.n + 1, status |-> status, body |-> body]

\* a message handed out as it is stored
MaskMessageNot(msg) == msg

\* the map over the messages of a session: content, thinking and tool_output
\* masked, the other columns as stored
MaskMessage(msg) ==
    [msg EXCEPT !.content = maskSecrets(msg.content),
                !.thinking = maskSecrets(msg.thinking),
                !.tool_output = maskSecrets(msg.tool_output)]

\* GET /api/sessions/:id; the messages as a set (rows of one position come
\* in no fixed order), starsMap as the pairs of a message id and a tag
GetSessionById(prev, sessions, messages, stars, id) ==
    IF getSession(sessions, id) = {}
    THEN Answer(prev, "GET /api/sessions/:id", [id |-> id], 404,
                [error |-> "Session not found"])
    ELSE Answer(prev, "GET /api/sessions/:id", [id |-> id], 200,
                [session  |-> getSession(sessions, id),
                 messages |-> {MaskMessage(m) : m \in getMessages(messages, id)},
                 stars    |-> {<<r.message_id, r.tag>> :
                                  r \in getStarsForSession(stars, id)}])

\* POST /api/stars/:sessionId/:messageId with the body {tag, note}: the
\* answer and the table afterwards
PostStar(prev, stars, seq, sessionId, messageId, tag, note) ==
    LET tagValidation == validateString(tag, LIMITS.TAG_ID)
        noteValidation == validateString(note, LIMITS.NOTE)
        validatedNote == IF TruthyT(note) THEN noteValidation.value ELSE <<>>
        added == addTag(stars, seq, sessionId, messageId, tagValidation.value,
                        validatedNote)
        req == [sessionId |-> sessionId, messageId |-> messageId, tag |-> tag,
                note |-> note]
    IN IF tagValidation.error \/ (TruthyT(note) /\ noteValidation.error)
       THEN [res   |-> Answer(prev, "POST /api/stars/:sessionId/:messageId", req, 400,
                              [success |-> FALSE, tags |-> {}]),
             stars |-> stars, seq |-> seq]
       ELSE [res   |-> Answer(prev, "POST /api/stars/:sessionId/:messageId", req, 200,
                              [success |-> TRUE,
                               tags |-> getMessageTags(added.stars, sessionId, messageId)]),
             stars |-> added.stars, seq |-> added.seq]

\* DELETE /api/stars/:sessionId/:messageId
DeleteStars(prev, stars, sessionId, messageId) ==
    [res   |-> Answer(prev, "DELETE /api/stars/:sessionId/:messageId",
                      [sessionId |-> sessionId, messageId |-> messageId], 200,
                      [success |-> TRUE, tags |-> {}]),
     stars |-> deleteStar(stars, sessionId, messageId)]

\* DELETE /api/stars/:sessionId/:messageId/:tag
DeleteStarTag(prev, stars, sessionId, messageId, tag) ==
    LET left == removeTag(stars, sessionId, messageId, tag)
    IN [res   |-> Answer(prev, "DELETE /api/stars/:sessionId/:messageId/:tag",
                         [sessionId |-> sessionId, messageId |-> messageId, tag |-> tag],
                         200,
                         [success |-> TRUE,
                          tags |-> getMessageTags(left, sessionId, messageId)]),
        stars |-> left]

\* DELETE /api/tags/:id
DeleteTagById(prev, tags, stars, id) ==
    LET result == deleteTag(tags, stars, id)
    IN IF TruthyA(result.error)
       THEN [res  |-> Answer(prev, "DELETE /api/tags/:id", [id |-> id], 409,
                             [success |-> FALSE, error |-> result.error,
                              count |-> result.count]),
             tags |-> result.tags]
       ELSE [res  |-> Answer(prev, "DELETE /api/tags/:id", [id |-> id], 200,
                             [success |-> TRUE, error |-> Undefined, count |-> 0]),
             tags |-> result.tags]

---------------------------------------------------------------------------
(* The source directories *)

ClaudeDefault == "~/.claude/projects"

CodexDefault == "~/.codex/sessions"

GeminiDefault == "~/.gemini/tmp"

GeminiHome == "~/.gemini"

NoDir == [exists |-> FALSE, entries |-> <<>>]

\* <geminiHome>/tmp/chats, seen from geminiHome as the chats folder of tmp
TmpChats(entries) ==
    LET named == {i \in 1..Len(entries) : entries[i].name = "chats" /\ entries[i].stat = "dir"}
    IN IF named = {} THEN [exists |-> FALSE, files |-> <<>>]
       ELSE [exists |-> TRUE, files |-> entries[CHOOSE i \in named : TRUE].direct]

\* the directory an adapter finds at path
DirAt(f, path) ==
    CASE path = ClaudeDefault -> f.claude
      [] path = CodexDefault  -> f.codex
      [] path = GeminiDefault ->
            [exists |-> f.gemini.exists /\ f.gemini.tmpExists, entries |-> f.gemini.entries]
      [] path = GeminiHome ->
            [exists  |-> f.gemini.exists,
             entries |-> IF f.gemini.tmpExists
                         THEN <<[name |-> "tmp", stat |-> "dir",
                                 chats |-> TmpChats(f.gemini.entries), direct |-> <<>>]>>
                         ELSE <<>>]
      [] OTHER -> NoDir

MissingFile == [readable |-> FALSE, content |-> <<>>]

\* the file a path names now (a file that is gone cannot be read)
CodexFileAt(f, name) ==
    LET at == {i \in 1..Len(f.codex.entries) : f.codex.entries[i].name = name}
    IN IF at = {} \/ ~f.codex.exists THEN MissingFile
       ELSE LET e == f.codex.entries[CHOOSE i \in at : TRUE]
            IN [readable |-> e.readable, content |-> e.content]

RECURSIVE GlobJsonl(_)
\* glob(join(codexPath, '**', '*.jsonl')): the paths found
GlobJsonl(entries) ==
    IF entries = <<>> THEN <<>>
    ELSE (IF entries[1].ext = ".jsonl" THEN <<entries[1].name>> ELSE <<>>)
         \o GlobJsonl(Tail(entries))

RECURSIVE CodexFiles(_, _, _, _)
\* for (const filePath of jsonlFiles)
CodexFiles(st, f, names, fault) ==
    IF st.threw \/ names = <<>> THEN st
    ELSE CodexFiles(CodexFile(st, names[1], CodexFileAt(f, names[1]), fault),
                    f, Tail(names), fault)

---------------------------------------------------------------------------
(* Source files the model draws from *)

Hi == <<"h", "i">>

Hello == <<"h", "e", "l", "l", "o">>

\* Claude Code records
CSummary == [EmptyObj EXCEPT !.type = "summary", !.summary = <<"s", "u", "m">>]

CUser == [EmptyObj EXCEPT !.type = "user", !.timestamp = "t1", !.uuid = "u1",
             !.message = [present |-> TRUE, content |-> StringContent(Hello)]]

CAssistant == [EmptyObj EXCEPT !.type = "assistant", !.timestamp = "t2",
             !.message = [present |-> TRUE,
                          content |-> ListContent(<<TextPart(Hi), ThinkingPart(<<"r">>)>>)]]

\* Codex CLI records
XMeta == [EmptyObj EXCEPT !.type = "session_meta", !.timestamp = "t1",
             !.payload = [present |-> TRUE, role |-> Undefined,
                          cwd |-> <<"/", "w", "/", "p">>, content |-> NoContent]]

XUser == [EmptyObj EXCEPT !.type = "response_item", !.timestamp = "t2",
             !.payload = [present |-> TRUE, role |-> "user", cwd |-> NullT,
                          content |-> ListContent(<<InputTextPart(Hello)>>)]]

XAssistant == [EmptyObj EXCEPT !.type = "response_item", !.timestamp = "t3",
             !.payload = [present |-> TRUE, role |-> "assistant", cwd |-> NullT,
                          content |-> ListContent(<<OutputPart(Hi)>>)]]

\* Gemini CLI messages
GUser == [EmptyGMsg EXCEPT !.type = "user", !.timestamp = "t1", !.content = Hello,
             !.id = "m1"]

GInfo == [EmptyGMsg EXCEPT !.type = "info", !.content = Hi]

GGemini == [EmptyGMsg EXCEPT !.type = "gemini", !.timestamp = "t2", !.content = Hi,
             !.thoughts = <<[subject |-> <<"s">>, description |-> <<"d">>]>>]

GDoc(id, msgs) ==
    [EmptyDoc EXCEPT !.sessionId = id, !.projectHash = <<"0", "1", "2", "3", "4", "5",
                                                         "6", "7", "8", "9">>,
                     !.startTime = "t1", !.lastUpdated = "t2", !.messages = msgs]

Tools == {"claude", "codex", "gemini"}

\* the kinds of file a directory may hold: a complete session, one with a
\* malformed line in it, one without any record, one with a null record, one
\* whose messages bear the same id, one that cannot be read, and a directory
\* entry that cannot be stat'ed
Shapes(tool) ==
    CASE tool = "claude" -> {"good", "unreadable", "staterror"}
      [] tool = "codex"  -> {"good", "malformed", "junk", "nullrecord", "unreadable"}
      [] tool = "gemini" -> {"good", "nullrecord", "sameids", "unreadable", "staterror"}

\* the places a file may take in a tool's directory: the first two derive
\* the same session id
Slots == {1, 2, 3}

SlotId(k) == IF k <= 2 THEN "a" ELSE "b"

JsonlText(tool, shape) ==
    LET meta  == IF tool = "claude" THEN CSummary ELSE XMeta
        user  == IF tool = "claude" THEN CUser ELSE XUser
        asst  == IF tool = "claude" THEN CAssistant ELSE XAssistant
    IN CASE shape = "malformed"  -> <<Json(user), NL, Garbage, NL, Json(asst), NL>>
         [] shape = "junk"       -> <<Garbage, NL>>
         [] shape = "nullrecord" -> <<Json(user), NL, Json(JsonNull), NL>>
         [] OTHER                -> <<Json(meta), NL, Json(user), NL, SP, NL, Json(asst), NL>>

GeminiText(k, shape) ==
    LET id == IF k = 3 THEN Undefined ELSE SlotId(k) IN
    CASE shape = "nullrecord" -> <<Json(GDoc(id, <<GUser, [EmptyGMsg EXCEPT !.kind = "null"]>>))>>
      [] shape = "sameids"    -> <<Json(GDoc(id, <<GUser, [GGemini EXCEPT !.id = GUser.id]>>))>>
      [] OTHER                -> <<Json(GDoc(id, <<GUser, GInfo, GGemini>>)), NL>>

ClaudeDirName(k) ==
    CASE k = 1 -> <<"-", "U", "-", "m", "-", "p">>
      [] k = 2 -> <<"-", "U", "-", "m", "-", "q", "-", "r">>
      [] OTHER -> <<"x", ToString(k)>>

ClaudeEntry(k, shape) ==
    [name  |-> ClaudeDirName(k),
     stat  |-> IF shape = "staterror" THEN "error" ELSE "dir",
     files |-> <<[stem |-> SlotId(k), ext |-> ".jsonl",
                  readable |-> shape # "unreadable",
                  content |-> JsonlText("claude", shape)]>>]

CodexEntry(k, shape) ==
    [name     |-> <<"rollout", ToString(k), SlotId(k)>>,
     ext      |-> ".jsonl",
     readable |-> shape # "unreadable",
     content  |-> JsonlText("codex", shape)]

GeminiEntry(k, shape) ==
    [name   |-> "hash" \o ToString(k),
     stat   |-> IF shape = "staterror" THEN "error" ELSE "dir",
     direct |-> <<>>,
     chats  |-> [exists |-> TRUE,
                 files  |-> <<[stem |-> "session-" \o ToString(k), session |-> TRUE,
                               ext |-> ".json", readable |-> shape # "unreadable",
                               content |-> GeminiText(k, shape)]>>]]

EntryOf(tool, k, shape) ==
    CASE tool = "claude" -> ClaudeEntry(k, shape)
      [] tool = "codex"  -> CodexEntry(k, shape)
      [] tool = "gemini" -> GeminiEntry(k, shape)

RECURSIVE EntriesFrom(_, _, _, _)
\* the entries of a tool's directory, in the order of their places
EntriesFrom(tool, k, present, shape) ==
    IF k > 3 THEN <<>>
    ELSE (IF <<tool, k>> \in present THEN <<EntryOf(tool, k, shape[<<tool, k>>])>> ELSE <<>>)
         \o EntriesFrom(tool, k + 1, present, shape)

\* a file system whose source directories hold the files at the places present
BuildFs(present, shape) ==
    [claude |-> [exists  |-> \E k \in Slots : <<"claude", k>> \in present,
                 entries |-> EntriesFrom("claude", 1, present, shape)],
     codex  |-> [exists  |-> \E k \in Slots : <<"codex", k>> \in present,
                 entries |-> EntriesFrom("codex", 1, present, shape)],
     gemini |-> [exists  |-> TRUE,
                 tmpExists |-> \E k \in Slots : <<"gemini", k>> \in present,
                 entries |-> EntriesFrom("gemini", 1, present, shape)]]

AllShapes == UNION {Shapes(t) : t \in Tools}

\* the second place is that of a further file with the id of the first
Layouts(n) ==
    {Q \in SUBSET (Tools \X Slots) :
        /\ Cardinality(Q) <= n
        /\ \A t \in Tools : <<t, 2>> \in Q => <<t, 1>> \in Q}

\* the file systems with at most n source files
FileSystems(n) ==
    {BuildFs(present, shape) :
        <<present, shape>> \in
            {ps \in UNION {{<<P, sh>> : sh \in [P -> AllShapes]} : P \in Layouts(n)} :
                \A p \in ps[1] : ps[2][p] \in Shapes(p[1])}}

EmptyFs == BuildFs({}, <<>>)

---------------------------------------------------------------------------
(* The adapters called directly, on every directory of up to MaxFiles files *)

MaxFiles == 2

MaxCalls == 2

\* the storage call that throws during an adapter call over n files, if any
Faults(n) == {NoFault} \cup [file : 1..n, op : {"exists", "upsert", "insert"}]

NotRun == [fn |-> "none", messages |-> <<>>, errors |-> 0, ok |-> FALSE, v |-> JsonNull]

NoFile == [readable |-> FALSE, content |-> <<>>]

NoCall == [n |-> 0, tool |-> "none", threw |-> FALSE, imported |-> 0, stored0 |-> 0,
           trace |-> <<>>]

OrchIdle ==
    [pc |-> "idle", config |-> <<>>, tools |-> <<>>, i |-> 0, stats |-> <<>>,
     log |-> <<>>, names |-> <<>>]

DEBOUNCE_MS == 2000

\* the watcher as startWatcher leaves it: importTimer null, nothing pending
WatchOn ==
    [on |-> TRUE, importTimer |-> 0, timers |-> {}, nextId |-> 1, since |-> DEBOUNCE_MS,
     log |-> <<>>, seen |-> 0]

WatchOff == [WatchOn EXCEPT !.on = FALSE]

\* what a caller sees of an adapter call that ended: the value returned or
\* the exception, and what the call logged on the way
Ended(prev, tool, sessions0, st) ==
    [n |-> prev.n + 1, tool |-> tool, threw |-> st.threw, imported |-> st.imported,
     stored0 |-> Cardinality(sessions0), trace |-> st.trace]

Init ==
    /\ pIn = NoFile
    /\ pOut = NotRun
    /\ fs \in FileSystems(MaxFiles)
    /\ dbSessions = {}
    /\ dbMessages = {}
    /\ inflight = <<>>
    /\ last = NoCall
    /\ calls = 0
    /\ orch = OrchIdle
    /\ watch = WatchOff
    /\ ApiIdle

\* importClaudeSessions(): runs to its end without yielding
CallClaude ==
    /\ calls < MaxCalls
    /\ \E fault \in Faults(Len(DirAt(fs, ClaudeDefault).entries)) :
          LET st == importClaudeSessions(RunStart(dbSessions, dbMessages), ClaudeDefault,
                                         DirAt(fs, ClaudeDefault), fault)
          IN /\ dbSessions' = st.sessions
             /\ dbMessages' = st.messages
             /\ last' = Ended(last, "claude", dbSessions, st)
    /\ calls' = calls + 1
    /\ UNCHANGED <<apiVars, pIn, pOut, fs, inflight, orch, watch>>

\* importGeminiSessions(): runs to its end without yielding
CallGemini ==
    /\ calls < MaxCalls
    /\ \E fault \in Faults(Len(DirAt(fs, GeminiDefault).entries)) :
          LET st == importGeminiSessions(RunStart(dbSessions, dbMessages),
                                         DirAt(fs, GeminiDefault), fault)
          IN /\ dbSessions' = st.sessions
             /\ dbMessages' = st.messages
             /\ last' = Ended(last, "gemini", dbSessions, st)
    /\ calls' = calls + 1
    /\ UNCHANGED <<apiVars, pIn, pOut, fs, inflight, orch, watch>>

\* importCodexSessions() on a missing directory: returns 0 at once
CallCodexMissing ==
    /\ calls < MaxCalls
    /\ ~DirAt(fs, CodexDefault).exists
    /\ last' = Ended(last, "codex", dbSessions, RunStart(dbSessions, dbMessages))
    /\ calls' = calls + 1
    /\ UNCHANGED <<apiVars, pIn, pOut, fs, dbSessions, dbMessages, inflight, orch, watch>>

\* importCodexSessions() up to its await: the enumeration of the files
CallCodexGlob ==
    /\ calls < MaxCalls
    /\ DirAt(fs, CodexDefault).exists
    /\ inflight' = Append(inflight, GlobJsonl(DirAt(fs, CodexDefault).entries))
    /\ calls' = calls + 1
    /\ UNCHANGED <<apiVars, pIn, pOut, fs, dbSessions, dbMessages, last, orch, watch>>

\* importCodexSessions() from its await on: the loop over the files found
CallCodexLoop ==
    /\ \E i \in 1..Len(inflight) : \E fault \in Faults(Len(inflight[i])) :
          LET st == CodexFiles(RunStart(dbSessions, dbMessages), fs, inflight[i], fault)
          IN /\ dbSessions' = st.sessions
             /\ dbMessages' = st.messages
             /\ last' = Ended(last, "codex", dbSessions, st)
             /\ inflight' = SubSeq(inflight, 1, i - 1) \o SubSeq(inflight, i + 1, Len(inflight))
    /\ UNCHANGED <<apiVars, pIn, pOut, fs, calls, orch, watch>>

Next ==
    \/ CallClaude
    \/ CallGemini
    \/ CallCodexMissing
    \/ CallCodexGlob
    \/ CallCodexLoop

Spec == Init /\ [][Next]_vars

---------------------------------------------------------------------------
(* importers/index.js and tools.config.js: the orchestrator *)

\* tools.config.js: the tools as shipped
ToolsConfig ==
    <<[id |-> "claude", enabled |-> TRUE, defaultPath |-> ClaudeDefault, importer |-> "claude"],
      [id |-> "codex", enabled |-> TRUE, defaultPath |-> CodexDefault, importer |-> "codex"],
      [id |-> "gemini", enabled |-> TRUE, defaultPath |-> GeminiHome, importer |-> "gemini"]>>

\* a tool added to the configuration for which no importer is registered
ExtraTool ==
    [id |-> "cursor", enabled |-> TRUE, defaultPath |-> "~/.cursor", importer |-> "cursor"]

\* the configurations: any of the shipped tools switched off, the added tool
\* in front of them, behind them or absent
OrchConfigs ==
    {(IF x = "first" THEN <<ExtraTool>> ELSE <<>>)
        \o [k \in 1..Len(ToolsConfig) |-> [ToolsConfig[k] EXCEPT !.enabled = en[k]]]
        \o (IF x = "last" THEN <<ExtraTool>> ELSE <<>>) :
     en \in [1..Len(ToolsConfig) -> BOOLEAN], x \in {"none", "first", "last"}}

\* getEnabledTools()
getEnabledTools(tools) == SelectSeq(tools, LAMBDA t : t.enabled)

\* importers[tool.importer]
HasImporter(tool) == tool.importer \in Tools

\* stats[id] = n
StatsPut(stats, id, n) ==
    IF \E k \in 1..Len(stats) : stats[k].id = id
    THEN [k \in 1..Len(stats) |-> IF stats[k].id = id THEN [id |-> id, n |-> n] ELSE stats[k]]
    ELSE Append(stats, [id |-> id, n |-> n])

\* the catch clause left out: the exception leaves importAllSessions
OnThrowUncaught(o, tool) == [o EXCEPT !.pc = "failed"]

\* catch (err) { console.error(...); stats[tool.id] = 0; }
OnThrow(o, tool) == [o EXCEPT !.stats = StatsPut(@, tool.id, 0), !.i = @ + 1, !.pc = "run"]

\* stats[tool.id] = await importer(tool.defaultPath), the adapter having ended as st
OnEnded(o, tool, dirExists, st) ==
    LET o1 == [o EXCEPT !.log = Append(@, [id |-> tool.id, dirExists |-> dirExists,
                                           outcome |-> IF st.threw THEN "threw" ELSE "returned",
                                           value |-> st.imported]),
                        !.names = <<>>]
    IN IF st.threw THEN OnThrow(o1, tool)
       ELSE [o1 EXCEPT !.stats = StatsPut(@, tool.id, st.imported), !.i = @ + 1, !.pc = "run"]

\* the adapters that run to their end without yielding
RunSync(tool, st0, fault) ==
    IF tool.importer = "claude"
    THEN importClaudeSessions(st0, tool.defaultPath, DirAt(fs, tool.defaultPath), fault)
    ELSE IF tool.importer = "gemini"
    THEN importGeminiSessions(st0, DirAt(fs, tool.defaultPath), fault)
    ELSE st0                                \* codex, its directory missing

MaxOrchFiles == 1

OrchInit ==
    /\ pIn = NoFile
    /\ pOut = NotRun
    /\ fs \in FileSystems(MaxOrchFiles)
    /\ dbSessions = {}
    /\ dbMessages = {}
    /\ inflight = <<>>
    /\ last = NoCall
    /\ calls = 0
    /\ orch = OrchIdle
    /\ watch = WatchOff
    /\ ApiIdle

\* importAllSessions(): const stats = {}; const enabledTools = getEnabledTools()
OrchStart ==
    /\ orch.pc = "idle"
    /\ \E config \in OrchConfigs :
          orch' = [OrchIdle EXCEPT !.pc = "run", !.config = config,
                                   !.tools = getEnabledTools(config), !.i = 1]
    /\ UNCHANGED <<apiVars, pIn, pOut, importVars, watch>>

\* the else branch: console.warn(...); stats[tool.id] = 0
OrchNoImporter ==
    /\ orch.pc = "run"
    /\ orch.i <= Len(orch.tools)
    /\ ~HasImporter(orch.tools[orch.i])
    /\ orch' = [orch EXCEPT !.stats = StatsPut(@, orch.tools[orch.i].id, 0),
                            !.i = @ + 1,
                            !.log = Append(@, [id |-> orch.tools[orch.i].id, dirExists |-> FALSE,
                                               outcome |-> "noimporter", value |-> 0])]
    /\ UNCHANGED <<apiVars, pIn, pOut, importVars, watch>>

\* one turn of the loop for an adapter that ends without yielding
OrchRunSync ==
    /\ orch.pc = "run"
    /\ orch.i <= Len(orch.tools)
    /\ LET tool == orch.tools[orch.i]
           dir == DirAt(fs, tool.defaultPath)
       IN /\ HasImporter(tool)
          /\ tool.importer = "codex" => ~dir.exists
          /\ \E fault \in Faults(Len(dir.entries)) :
                LET st == RunSync(tool, RunStart(dbSessions, dbMessages), fault)
                IN /\ dbSessions' = st.sessions
                   /\ dbMessages' = st.messages
                   /\ last' = Ended(last, tool.importer, dbSessions, st)
                   /\ orch' = OnEnded(orch, tool, dir.exists, st)
    /\ UNCHANGED <<apiVars, pIn, pOut, fs, inflight, calls, watch>>

\* one turn of the loop for the Codex adapter, up to its await
OrchCodexGlob ==
    /\ orch.pc = "run"
    /\ orch.i <= Len(orch.tools)
    /\ LET tool == orch.tools[orch.i]
           dir == DirAt(fs, tool.defaultPath)
       IN /\ tool.importer = "codex"
          /\ dir.exists
          /\ orch' = [orch EXCEPT !.pc = "await", !.names = GlobJsonl(dir.entries)]
    /\ UNCHANGED <<apiVars, pIn, pOut, importVars, watch>>

\* the Codex adapter from its await on, and the assignment of what it returns
OrchCodexLoop ==
    /\ orch.pc = "await"
    /\ \E fault \in Faults(Len(orch.names)) :
          LET st == CodexFiles(RunStart(dbSessions, dbMessages), fs, orch.names, fault)
          IN /\ dbSessions' = st.sessions
             /\ dbMessages' = st.messages
             /\ last' = Ended(last, "codex", dbSessions, st)
             /\ orch' = OnEnded(orch, orch.tools[orch.i], TRUE, st)
    /\ UNCHANGED <<apiVars, pIn, pOut, fs, inflight, calls, watch>>

\* return stats
OrchReturn ==
    /\ orch.pc = "run"
    /\ orch.i > Len(orch.tools)
    /\ orch' = [orch EXCEPT !.pc = "done"]
    /\ UNCHANGED <<apiVars, pIn, pOut, importVars, watch>>

OrchNext ==
    \/ OrchStart
    \/ OrchNoImporter
    \/ OrchRunSync
    \/ OrchCodexGlob
    \/ OrchCodexLoop
    \/ OrchReturn

SpecOrch == OrchInit /\ [][OrchNext]_vars

---------------------------------------------------------------------------
(* server/watcher.js *)

\* paths the watcher reports: a directory chain, the pieces of the file
\* name, the extension
ClaudePath ==
    [dirs |-> <<"~", ".claude", "projects", "-U-m-p">>, name |-> <<"a">>, ext |-> ".jsonl"]

CodexPath ==
    [dirs |-> <<"~", ".codex", "sessions">>, name |-> <<"rollout", "1", "a">>, ext |-> ".jsonl"]

GeminiPath ==
    [dirs |-> <<"~", ".gemini", "tmp", "hash1", "chats">>, name |-> <<"session-", "1">>,
     ext |-> ".json"]

GeminiLogPath ==
    [dirs |-> <<"~", ".gemini", "tmp", "hash1">>, name |-> <<"logs">>, ext |-> ".json"]

WatchedPaths == {ClaudePath, CodexPath, GeminiPath, GeminiLogPath}

\* filePath.includes(piece), for a piece that is a directory or a part of the name
PathIncludes(path, piece) ==
    \/ \E k \in 1..Len(path.dirs) : path.dirs[k] = piece
    \/ \E k \in 1..Len(path.name) : path.name[k] = piece

\* filePath.endsWith(ext)
PathEndsWith(path, ext) == path.ext = ext

\* a handler that takes every file for a session file
IsSessionFileAny(path) == TRUE

\* the test both handlers make before they call scheduleImport
IsSessionFile(path) ==
    \/ PathEndsWith(path, ".jsonl")
    \/ (PathEndsWith(path, ".json") /\ PathIncludes(path, "session-"))

\* the adapter the timer callback picks
AdapterFor(path) ==
    IF PathIncludes(path, ".claude") THEN "claude"
    ELSE IF PathIncludes(path, ".codex") THEN "codex"
    ELSE IF PathIncludes(path, ".gemini") THEN "gemini"
    ELSE "none"

\* a clearTimeout that cancels nothing
clearTimeoutNot(timers, handle) == timers

\* clearTimeout(handle): a handle that has fired or was cleared is ignored
clearTimeout(timers, handle) == {t \in timers : t.id # handle}

\* scheduleImport(filePath)
scheduleImport(w, path) ==
    LET kept == IF w.importTimer # 0 THEN clearTimeout(w.timers, w.importTimer)
                ELSE w.timers
    IN [w EXCEPT !.timers = kept \cup {[id |-> w.nextId, path |-> path, left |-> DEBOUNCE_MS]},
                 !.importTimer = w.nextId,
                 !.nextId = @ + 1,
                 !.since = 0,
                 !.log = Append(@, [kind |-> "event", path |-> path, tool |-> "none",
                                    ms |-> w.since])]

\* an import whose rejection nobody catches ends the process
OnImportErrorUncaught(w, tool) == [w EXCEPT !.on = FALSE, !.timers = {}]

\* catch (error) { console.error('Import error:', error); }
OnImportError(w, tool) ==
    [w EXCEPT !.log = Append(@, [kind |-> "error", path |-> ClaudePath, tool |-> tool,
                                 ms |-> 0])]

\* the timer callback up to the adapter call
OnTimeout(w, timer) ==
    [w EXCEPT !.timers = @ \ {timer},
              !.log = Append(@, [kind |-> "import", path |-> timer.path,
                                 tool |-> AdapterFor(timer.path), ms |-> w.since])]

\* the file systems the watcher is run on: nothing to import, a session to
\* import for each tool, a directory entry that cannot be stat'ed, a log with
\* a null record
WatchFileSystems ==
    {EmptyFs,
     BuildFs({<<"claude", 1>>}, (<<"claude", 1>> :> "good")),
     BuildFs({<<"codex", 1>>}, (<<"codex", 1>> :> "good")),
     BuildFs({<<"gemini", 1>>}, (<<"gemini", 1>> :> "good")),
     BuildFs({<<"claude", 1>>}, (<<"claude", 1>> :> "staterror")),
     BuildFs({<<"codex", 1>>}, (<<"codex", 1>> :> "nullrecord"))}

MaxEvents == 3

WatchInit ==
    /\ pIn = NoFile
    /\ pOut = NotRun
    /\ fs \in WatchFileSystems
    /\ dbSessions = {}
    /\ dbMessages = {}
    /\ inflight = <<>>
    /\ last = NoCall
    /\ calls = 0
    /\ orch = OrchIdle
    /\ watch = WatchOn
    /\ ApiIdle

\* a timer that is due fires before anything that happens later is handled
NoneDue == \A t \in watch.timers : t.left > 0

\* watcher.on('add', ...)
OnAdd ==
    /\ watch.on /\ NoneDue
    /\ watch.seen < MaxEvents
    /\ \E path \in WatchedPaths :
          watch' = [(IF IsSessionFile(path) THEN scheduleImport(watch, path) ELSE watch)
                       EXCEPT !.seen = @ + 1]
    /\ UNCHANGED <<apiVars, pIn, pOut, importVars, orch>>

\* watcher.on('change', ...)
OnChange ==
    /\ watch.on /\ NoneDue
    /\ watch.seen < MaxEvents
    /\ \E path \in WatchedPaths :
          watch' = [(IF IsSessionFile(path) THEN scheduleImport(watch, path) ELSE watch)
                       EXCEPT !.seen = @ + 1]
    /\ UNCHANGED <<apiVars, pIn, pOut, importVars, orch>>

\* watcher.on('error', ...): logs
OnError ==
    /\ watch.on /\ NoneDue
    /\ watch.seen < MaxEvents
    /\ watch' = [watch EXCEPT !.seen = @ + 1]
    /\ UNCHANGED <<apiVars, pIn, pOut, importVars, orch>>

\* half a debounce window passes
Tick ==
    /\ watch.on /\ NoneDue
    /\ watch.timers # {}
    /\ watch' = [watch EXCEPT
                    !.timers = {[t EXCEPT !.left = @ - (DEBOUNCE_MS \div 2)] : t \in @},
                    !.since = IF @ + (DEBOUNCE_MS \div 2) >= DEBOUNCE_MS THEN DEBOUNCE_MS
                              ELSE @ + (DEBOUNCE_MS \div 2)]
    /\ UNCHANGED <<apiVars, pIn, pOut, importVars, orch>>

\* a timer fires and its adapter ends without yielding (Claude, Gemini, Codex
\* on a missing directory, or no adapter at all)
FireSync ==
    /\ watch.on
    /\ \E timer \in watch.timers :
          LET tool == AdapterFor(timer.path)
              st0 == RunStart(dbSessions, dbMessages)
              st == IF tool = "claude"
                    THEN importClaudeSessions(st0, ClaudeDefault, DirAt(fs, ClaudeDefault),
                                              NoFault)
                    ELSE IF tool = "gemini"
                    THEN importGeminiSessions(st0, DirAt(fs, GeminiDefault), NoFault)
                    ELSE st0
              w == OnTimeout(watch, timer)
          IN /\ timer.left = 0
             /\ tool = "codex" => ~DirAt(fs, CodexDefault).exists
             /\ dbSessions' = st.sessions
             /\ dbMessages' = st.messages
             /\ last' = IF tool = "none" THEN last ELSE Ended(last, tool, dbSessions, st)
             /\ watch' = IF st.threw THEN OnImportError(w, tool) ELSE w
    /\ UNCHANGED <<apiVars, pIn, pOut, fs, inflight, calls, orch>>

\* a timer fires and the Codex adapter reaches its await
FireCodex ==
    /\ watch.on
    /\ \E timer \in watch.timers :
          /\ timer.left = 0
          /\ AdapterFor(timer.path) = "codex"
          /\ DirAt(fs, CodexDefault).exists
          /\ inflight' = Append(inflight, GlobJsonl(DirAt(fs, CodexDefault).entries))
          /\ watch' = OnTimeout(watch, timer)
    /\ UNCHANGED <<apiVars, pIn, pOut, fs, dbSessions, dbMessages, last, calls, orch>>

\* the Codex adapter a timer started goes on from its await to its end
WatchCodexLoop ==
    /\ watch.on
    /\ \E i \in 1..Len(inflight) :
          LET st == CodexFiles(RunStart(dbSessions, dbMessages), fs, inflight[i], NoFault)
          IN /\ dbSessions' = st.sessions
             /\ dbMessages' = st.messages
             /\ last' = Ended(last, "codex", dbSessions, st)
             /\ inflight' = SubSeq(inflight, 1, i - 1) \o SubSeq(inflight, i + 1, Len(inflight))
             /\ watch' = IF st.threw THEN OnImportError(watch, "codex") ELSE watch
    /\ UNCHANGED <<apiVars, pIn, pOut, fs, calls, orch>>

WatchNext ==
    \/ OnAdd
    \/ OnChange
    \/ OnError
    \/ Tick
    \/ FireSync
    \/ FireCodex
    \/ WatchCodexLoop

SpecWatcher == WatchInit /\ [][WatchNext]_vars

---------------------------------------------------------------------------
(* bin/cli.js: the serve command, the start-up pass and then the watcher *)

\* a serve action that does not wait for the pass it started
ServeReadyNoAwait(o) == o.pc # "idle"

\* const stats = await importAllSessions(): the action goes on when the pass
\* has returned
ServeReady(o) == o.pc = "done"

ServeInit ==
    /\ pIn = NoFile
    /\ pOut = NotRun
    /\ fs \in WatchFileSystems
    /\ dbSessions = {}
    /\ dbMessages = {}
    /\ inflight = <<>>
    /\ last = NoCall
    /\ calls = 0
    /\ orch = OrchIdle
    /\ watch = WatchOff
    /\ ApiIdle

\* importAllSessions() as the serve action calls it, on the tools as shipped
ServeImport ==
    /\ orch.pc = "idle"
    /\ orch' = [OrchIdle EXCEPT !.pc = "run", !.config = ToolsConfig,
                                !.tools = getEnabledTools(ToolsConfig), !.i = 1]
    /\ UNCHANGED <<apiVars, pIn, pOut, importVars, watch>>

\* await startServer({..., watch: true}): startWatcher()
StartServer ==
    /\ ServeReady(orch)
    /\ ~watch.on
    /\ watch.seen = 0
    /\ watch' = WatchOn
    /\ UNCHANGED <<apiVars, pIn, pOut, importVars, orch>>

ServeNext ==
    \/ ServeImport
    \/ OrchRunSync
    \/ OrchCodexGlob
    \/ OrchCodexLoop
    \/ OrchReturn
    \/ StartServer
    \/ WatchNext

SpecServe == ServeInit /\ [][ServeNext]_vars

---------------------------------------------------------------------------
(* Runs of importCodexSessions that overlap, files arriving meanwhile *)

MaxRuns == 2

\* the places of the Codex directory that hold a file
CodexPresent(f) ==
    {<<"codex", k>> : k \in {h \in Slots :
        \E i \in 1..Len(f.codex.entries) : f.codex.entries[i].name = CodexEntry(h, "good").name}}

\* the shape of the file at each place that holds one
CodexShapes(f) ==
    [p \in CodexPresent(f) |->
        LET e == f.codex.entries[CHOOSE i \in 1..Len(f.codex.entries) :
                                    f.codex.entries[i].name = CodexEntry(p[2], "good").name]
        IN IF e = CodexEntry(p[2], "good") THEN "good" ELSE "nullrecord"]

\* the runs so far: what each returned, which threw, and whether one started
\* while another was waiting for its file list
NoRuns == [fn |-> "importCodexSessions", returned |-> <<>>, threw |-> {},
           overlapped |-> FALSE]

OverlapInit ==
    /\ pIn = NoFile
    /\ pOut = NoRuns
    /\ fs \in {BuildFs({<<"codex", k>>}, (<<"codex", k>> :> "good")) : k \in Slots}
    /\ dbSessions = {}
    /\ dbMessages = {}
    /\ inflight = <<>>
    /\ last = NoCall
    /\ calls = 0
    /\ orch = OrchIdle
    /\ watch = WatchOff
    /\ ApiIdle

\* a session file appears in ~/.codex/sessions
NewFile ==
    /\ \E k \in Slots : \E shape \in {"good", "nullrecord"} :
          /\ <<"codex", k>> \notin CodexPresent(fs)
          /\ fs' = BuildFs(CodexPresent(fs) \cup {<<"codex", k>>},
                           [p \in CodexPresent(fs) \cup {<<"codex", k>>} |->
                               IF p = <<"codex", k>> THEN shape ELSE CodexShapes(fs)[p]])
    /\ UNCHANGED <<apiVars, pIn, pOut, dbSessions, dbMessages, inflight, last, calls, orch,
                   watch>>

\* a run of importCodexSessions() up to its await
OverlapGlob ==
    /\ calls < MaxRuns
    /\ DirAt(fs, CodexDefault).exists
    /\ inflight' = Append(inflight, [run |-> calls + 1,
                                     names |-> GlobJsonl(DirAt(fs, CodexDefault).entries)])
    /\ pOut' = [pOut EXCEPT !.overlapped = @ \/ inflight # <<>>]
    /\ calls' = calls + 1
    /\ UNCHANGED <<apiVars, pIn, fs, dbSessions, dbMessages, last, orch, watch>>

\* a run from its await on: the loop over the files it found, and its return
OverlapLoop ==
    /\ \E i \in 1..Len(inflight) :
          LET st == CodexFiles(RunStart(dbSessions, dbMessages), fs, inflight[i].names,
                               NoFault)
          IN /\ dbSessions' = st.sessions
             /\ dbMessages' = st.messages
             /\ last' = Ended(last, "codex", dbSessions, st)
             /\ pOut' = IF st.threw THEN [pOut EXCEPT !.threw = @ \cup {inflight[i].run}]
                        ELSE [pOut EXCEPT !.returned =
                                 Append(@, [run |-> inflight[i].run, count |-> st.imported])]
             /\ inflight' = SubSeq(inflight, 1, i - 1) \o SubSeq(inflight, i + 1, Len(inflight))
    /\ UNCHANGED <<apiVars, pIn, fs, calls, orch, watch>>

OverlapNext == NewFile \/ OverlapGlob \/ OverlapLoop

SpecOverlap == OverlapInit /\ [][OverlapNext]_vars

---------------------------------------------------------------------------
(* The adapters on one file of any records *)

\* a text one character longer than a summary may be
LongText == [k \in 1..(SummaryLength + 1) |-> "x"]

\* further records of the three formats
CSummaryLong == [CSummary EXCEPT !.summary = LongText]

CAssistantBare == [CAssistant EXCEPT !.timestamp = Undefined]

XDeveloper == [XUser EXCEPT !.payload.role = "developer"]

XUserLong == [XUser EXCEPT !.payload.content = ListContent(<<InputTextPart(LongText)>>)]

GUserLong == [GUser EXCEPT !.content = LongText, !.id = Undefined]

RecordsOf(tool) ==
    CASE tool = "claude" -> {CUser, CAssistantBare, CSummaryLong}
      [] tool = "codex"  -> {XMeta, XAssistant, XDeveloper, XUserLong}
      [] tool = "gemini" -> {GUser, GInfo, GGemini, GUserLong}

RECURSIVE JsonLines(_)
\* the text of a line-delimited file of the records
JsonLines(records) ==
    IF records = <<>> THEN <<>>
    ELSE <<Json(records[1]), NL>> \o JsonLines(Tail(records))

\* a file system with the one source file of a tool holding the records
OneFileFs(tool, records) ==
    [claude |-> [exists  |-> tool = "claude",
                 entries |-> IF tool = "claude"
                             THEN <<[ClaudeEntry(1, "good") EXCEPT
                                        !.files[1].content = JsonLines(records)]>>
                             ELSE <<>>],
     codex  |-> [exists  |-> tool = "codex",
                 entries |-> IF tool = "codex"
                             THEN <<[CodexEntry(1, "good") EXCEPT
                                        !.content = JsonLines(records)]>>
                             ELSE <<>>],
     gemini |-> [exists  |-> TRUE,
                 tmpExists |-> tool = "gemini",
                 entries |-> IF tool = "gemini"
                             THEN <<[GeminiEntry(1, "good") EXCEPT
                                        !.chats.files[1].content =
                                            <<Json(GDoc(SlotId(1), records))>>]>>
                             ELSE <<>>]]

\* the tool whose file is being imported
FileTool == CHOOSE tool \in Tools : DirAt(fs, IF tool = "claude" THEN ClaudeDefault
                                              ELSE IF tool = "codex" THEN CodexDefault
                                              ELSE GeminiDefault).exists

\* the records of the one source file of a tool
RawRecords(tool) ==
    CASE tool = "claude" -> parseJsonlFile(fs.claude.entries[1].files[1]).messages
      [] tool = "codex"  -> parseJsonlFile(fs.codex.entries[1]).messages
      [] tool = "gemini" -> parseJsonFile(fs.gemini.entries[1].chats.files[1]).v.messages

MaxRecords == 3

RecordFiles ==
    UNION {{OneFileFs(tool, records) :
               records \in UNION {[1..n -> RecordsOf(tool)] : n \in 0..MaxRecords}} :
           tool \in Tools}

RecordInit ==
    /\ pIn = NoFile
    /\ pOut = NotRun
    /\ fs \in RecordFiles
    /\ dbSessions = {}
    /\ dbMessages = {}
    /\ inflight = <<>>
    /\ last = NoCall
    /\ calls = 0
    /\ orch = OrchIdle
    /\ watch = WatchOff
    /\ ApiIdle

SpecRecords == RecordInit /\ [][Next]_vars

---------------------------------------------------------------------------
(* Importing again after a run in which a storage call threw *)

\* one call of a tool's adapter with its built-in path, from start to end
RunAdapter(tool, fault) ==
    LET st0 == RunStart(dbSessions, dbMessages) IN
    CASE tool = "claude" ->
            importClaudeSessions(st0, ClaudeDefault, DirAt(fs, ClaudeDefault), fault)
      [] tool = "gemini" ->
            importGeminiSessions(st0, DirAt(fs, GeminiDefault), fault)
      [] tool = "codex" ->
            IF DirAt(fs, CodexDefault).exists
            THEN CodexFiles(st0, fs, GlobJsonl(DirAt(fs, CodexDefault).entries), fault)
            ELSE st0

RetryInit ==
    /\ pIn = NoFile
    /\ pOut = NotRun
    /\ fs \in RecordFiles
    /\ dbSessions = {}
    /\ dbMessages = {}
    /\ inflight = <<>>
    /\ last = NoCall
    /\ calls = 0
    /\ orch = OrchIdle
    /\ watch = WatchOff
    /\ ApiIdle

\* the first import of the file, in which a storage call may throw
FirstRun ==
    /\ calls = 0
    /\ \E fault \in Faults(1) :
          LET st == RunAdapter(FileTool, fault)
          IN /\ dbSessions' = st.sessions
             /\ dbMessages' = st.messages
             /\ last' = Ended(NoCall, FileTool, dbSessions, st)
    /\ calls' = 1
    /\ UNCHANGED <<apiVars, pIn, pOut, fs, inflight, orch, watch>>

\* a file event of a tool's directory sets the timer of a later import; the
\* timer waits in inflight
Wake(tool) ==
    /\ calls = 1
    /\ inflight = <<>>
    /\ inflight' = <<tool>>
    /\ UNCHANGED <<apiVars, pIn, pOut, fs, dbSessions, dbMessages, last, calls, orch, watch>>

\* the timer fires: a later import by the adapter of the tool, every storage
\* call working
LaterRun ==
    /\ calls = 1
    /\ inflight # <<>>
    /\ LET st == RunAdapter(inflight[1], NoFault)
       IN /\ dbSessions' = st.sessions
          /\ dbMessages' = st.messages
          /\ last' = Ended(NoCall, inflight[1], dbSessions, st)
    /\ inflight' = <<>>
    /\ UNCHANGED <<apiVars, pIn, pOut, fs, calls, orch, watch>>

RetryNext == FirstRun \/ (\E tool \in Tools : Wake(tool)) \/ LaterRun

\* events of every tool's directory keep coming (strong fairness: a timer
\* that waits disables Wake until it has fired), and a timer that is set
\* fires. The weak fairness of FirstRun and of LaterRun is written out, each
\* changing calls or inflight whenever it is enabled:
\* ENABLED <<FirstRun>>_vars is calls = 0, ENABLED <<LaterRun>>_vars is
\* inflight # <<>>
SpecRetry ==
    /\ RetryInit
    /\ [][RetryNext]_vars
    /\ \A tool \in Tools : SF_vars(Wake(tool))
    /\ ([]<>(calls # 0) \/ []<><<FirstRun>>_vars)
    /\ ([]<>(inflight = <<>>) \/ []<><<LaterRun>>_vars)

---------------------------------------------------------------------------
(* The parser on its own: every file text up to MaxParseLen chunks *)

MaxParseLen == 5

ParseObjA == [EmptyObj EXCEPT !.type = "user"]

ParseObjB == [EmptyObj EXCEPT !.type = "assistant"]

ParseAlphabet == {NL, SP, Garbage, Json(ParseObjA), Json(ParseObjB)}

ParseTexts == UNION {[1..n -> ParseAlphabet] : n \in 0..MaxParseLen}

ParseInit ==
    /\ pIn \in [readable : BOOLEAN, content : ParseTexts]
    /\ pOut = NotRun
    /\ fs = EmptyFs
    /\ dbSessions = {}
    /\ dbMessages = {}
    /\ inflight = <<>>
    /\ last = NoCall
    /\ calls = 0
    /\ orch = OrchIdle
    /\ watch = WatchOff
    /\ ApiIdle

CallParseJsonl ==
    /\ pOut = NotRun
    /\ LET r == parseJsonlFile(pIn) IN
       pOut' = [fn |-> "parseJsonlFile", messages |-> r.messages, errors |-> r.errors,
                ok |-> TRUE, v |-> JsonNull]
    /\ UNCHANGED <<apiVars, pIn, importVars, orch, watch>>

CallParseJson ==
    /\ pOut = NotRun
    /\ LET r == parseJsonFile(pIn) IN
       pOut' = [fn |-> "parseJsonFile", messages |-> <<>>, errors |-> 0,
                ok |-> r.ok, v |-> r.v]
    /\ UNCHANGED <<apiVars, pIn, importVars, orch, watch>>

ParseNext == CallParseJsonl \/ CallParseJson

SpecParse == ParseInit /\ [][ParseNext]_vars

---------------------------------------------------------------------------
(* maskSecrets on its own: every text of up to MaxPieces pieces *)

\* an API key: sk- and 24 letters and digits
SkKey == <<"s", "k", "-", "a", "1", "B", "2", "c", "3", "D", "4", "e", "5", "F", "6", "g", "7", "H", "8", "i", "9", "J", "0", "k", "1", "L", "2">>

\* sk- and 18 letters: no key, two letters short
SkShort == <<"s", "k", "-", "a", "a", "a", "a", "a", "a", "a", "a", "a", "a", "a", "a", "a", "a", "a", "a", "a", "a">>

\* an AWS access key id
AwsKey == <<"A", "K", "I", "A", "0", "1", "2", "3", "4", "5", "6", "7", "8", "9", "A", "B", "C", "D", "E", "F">>

\* AKIA and 15 characters: no key id, one character short
AwsShort == <<"A", "K", "I", "A", "0", "1", "2", "3", "4", "5", "6", "7", "8", "9", "A", "B", "C", "D", "E">>

\* a bearer token, the scheme in lower case
BearerLower == <<"b", "e", "a", "r", "e", "r", " ", "x">>

\* a header with credentials
AuthHeader == <<"A", "u", "t", "h", "o", "r", "i", "z", "a", "t", "i", "o", "n", ":", " ", "a", "b", "c">>

\* a password in a configuration
Password == <<"p", "a", "s", "s", "w", "o", "r", "d", ":", " ", "'", "p", "'">>

\* a line of a .env file
EnvKey == <<"M", "Y", "_", "K", "E", "Y", "=", "v">>

\* a connection string
ConnString == <<"m", "y", "s", "q", "l", ":", "/", "/", "u", ":", "p", "@", "h">>

\* a space
Blank == <<" ">>

MaskPieces ==
    {SkKey, SkShort, AwsKey, AwsShort, BearerLower, AuthHeader, Password, EnvKey,
     ConnString, Blank, Hi}

MaxPieces == 2

RECURSIVE Flatten(_)
\* the pieces one after the other
Flatten(pieces) ==
    IF pieces = <<>> THEN <<>> ELSE pieces[1] \o Flatten(Tail(pieces))

MaskTexts ==
    {NullT} \cup {Flatten(ps) : ps \in UNION {[1..n -> MaskPieces] : n \in 0..MaxPieces}}

MaskInit ==
    /\ pIn \in MaskTexts
    /\ pOut = NotRun
    /\ fs = EmptyFs
    /\ dbSessions = {}
    /\ dbMessages = {}
    /\ inflight = <<>>
    /\ last = NoCall
    /\ calls = 0
    /\ orch = OrchIdle
    /\ watch = WatchOff
    /\ ApiIdle

\* maskSecrets(text)
CallMaskSecrets ==
    /\ pOut = NotRun
    /\ pOut' = [fn |-> "maskSecrets", n |-> 1, arg |-> pIn, text |-> maskSecrets(pIn)]
    /\ UNCHANGED <<apiVars, pIn, importVars, orch, watch>>

\* maskSecrets(masked): the function on its own result
CallMaskSecretsAgain ==
    /\ pOut.fn = "maskSecrets"
    /\ pOut.n = 1
    /\ pOut' = [fn |-> "maskSecrets", n |-> 2, arg |-> pOut.text,
                text |-> maskSecrets(pOut.text)]
    /\ UNCHANGED <<apiVars, pIn, importVars, orch, watch>>

MaskNext == CallMaskSecrets \/ CallMaskSecretsAgain

SpecMask == MaskInit /\ [][MaskNext]_vars

---------------------------------------------------------------------------
(* Reading a session back: one file with secrets in it, the adapters and *)
(* GET /api/sessions/:id                                                 *)

CSecret == [CUser EXCEPT !.message.content = StringContent(SkKey)]

XSecret == [XUser EXCEPT !.payload.content = ListContent(<<InputTextPart(Hi \o SkKey)>>)]

GSecret == [GGemini EXCEPT !.content = SkKey,
                           !.thoughts = <<[subject |-> AwsKey, description |-> Hi]>>]

SecretRecordsOf(tool) ==
    CASE tool = "claude" -> {CSecret}
      [] tool = "codex"  -> {XSecret, XAssistant}
      [] tool = "gemini" -> {GSecret, GUser}

MaxSecretRecords == 2

SecretFiles ==
    UNION {{OneFileFs(tool, records) :
               records \in UNION {[1..n -> SecretRecordsOf(tool)] :
                                     n \in 0..MaxSecretRecords}} :
           tool \in Tools}

MaxRequests == 2

\* a session id no file derives
NoSuchId == "zz"

ReadInit ==
    /\ pIn = NoFile
    /\ pOut = NotRun
    /\ fs \in SecretFiles
    /\ dbSessions = {}
    /\ dbMessages = {}
    /\ inflight = <<>>
    /\ last = NoCall
    /\ calls = 0
    /\ orch = OrchIdle
    /\ watch = WatchOff
    /\ ApiIdle

\* a client asks for a session
GetSession ==
    /\ res.n < MaxRequests
    /\ \E id \in {SlotId(1), NoSuchId} :
          res' = GetSessionById(res, dbSessions, dbMessages, dbStars, id)
    /\ UNCHANGED <<dbStars, dbSeq, dbTags, pIn, pOut, importVars, orch, watch>>

ReadNext == Next \/ GetSession

SpecRead == ReadInit /\ [][ReadNext]_vars

---------------------------------------------------------------------------
(* A session file that grows while the watcher runs *)

\* the records a tool appends to its session file
GrowRecordsOf(tool) ==
    CASE tool = "claude" -> {CUser}
      [] tool = "codex"  -> {XUser}
      [] tool = "gemini" -> {GGemini}

\* the one file of a tool with its modification time: the number of lines
\* the watcher had logged when the file was written last
GrowFs(tool, records, mtime) ==
    LET f == OneFileFs(tool, records)
    IN [x \in DOMAIN f \cup {"mtime"} |-> IF x = "mtime" THEN mtime ELSE f[x]]

MaxGrowth == 2

GrowInit ==
    /\ pIn = NoFile
    /\ pOut = NotRun
    /\ fs \in {GrowFs(tool, <<>>, 0) : tool \in Tools}
    /\ dbSessions = {}
    /\ dbMessages = {}
    /\ inflight = <<>>
    /\ last = NoCall
    /\ calls = 0
    /\ orch = OrchIdle
    /\ watch = WatchOn
    /\ ApiIdle

\* the tool writes the next record of the session to its file
AppendRecord ==
    /\ Len(RawRecords(FileTool)) < MaxGrowth
    /\ \E record \in GrowRecordsOf(FileTool) :
          fs' = GrowFs(FileTool, Append(RawRecords(FileTool), record), Len(watch.log))
    /\ UNCHANGED <<apiVars, pIn, pOut, dbSessions, dbMessages, inflight, last, calls, orch,
                   watch>>

GrowNext == WatchNext \/ AppendRecord

SpecGrow == GrowInit /\ [][GrowNext]_vars

---------------------------------------------------------------------------
(* Stars and tags: the routes that add and remove them *)

MaxTagRequests == 3

\* the sessions and the message the requests name
StarSessions == {SlotId(1), SlotId(3)}

StarMessages == {"m1"}

\* tags as a request body has them: two of the default tags, one with white
\* space around it, the empty string, no string, and one of TAG_ID + 1
\* characters
StarTagBodies ==
    {<<"l", "e", "s", "s", "o", "n">>, <<" ">> \o <<"l", "e", "s", "s", "o", "n">> \o <<" ">>, <<"b", "e", "s", "t", "-", "p", "r", "a", "c", "t", "i", "c", "e">>, <<>>, NullT,
     [k \in 1..(LIMITS.TAG_ID + 1) |-> "t"]}

\* notes as a request body has them: none, a short one, one of NOTE + 1
\* characters
StarNoteBodies == {<<>>, Hi, [k \in 1..(LIMITS.NOTE + 1) |-> "n"]}

\* tags as a path has them
StarTagParams == {<<"l", "e", "s", "s", "o", "n">>, <<"b", "e", "s", "t", "-", "p", "r", "a", "c", "t", "i", "c", "e">>}

\* tag ids as a path has them: two default tags and an id no tag has
TagIdParams == {<<"l", "e", "s", "s", "o", "n">>, <<"b", "e", "s", "t", "-", "p", "r", "a", "c", "t", "i", "c", "e">>, Hi}

TagsInit ==
    /\ pIn = NoFile
    /\ pOut = NotRun
    /\ fs = EmptyFs
    /\ dbSessions = {}
    /\ dbMessages = {}
    /\ inflight = <<>>
    /\ last = NoCall
    /\ calls = 0
    /\ orch = OrchIdle
    /\ watch = WatchOff
    /\ ApiIdle

\* POST /api/stars/:sessionId/:messageId
AddStar ==
    /\ res.n < MaxTagRequests
    /\ \E sessionId \in StarSessions, messageId \in StarMessages,
          tag \in StarTagBodies, note \in StarNoteBodies :
          LET r == PostStar(res, dbStars, dbSeq, sessionId, messageId, tag, note)
          IN /\ res' = r.res
             /\ dbStars' = r.stars
             /\ dbSeq' = r.seq
    /\ UNCHANGED <<dbTags, pIn, pOut, importVars, orch, watch>>

\* DELETE /api/stars/:sessionId/:messageId
RemoveStars ==
    /\ res.n < MaxTagRequests
    /\ \E sessionId \in StarSessions, messageId \in StarMessages :
          LET r == DeleteStars(res, dbStars, sessionId, messageId)
          IN /\ res' = r.res
             /\ dbStars' = r.stars
    /\ UNCHANGED <<dbSeq, dbTags, pIn, pOut, importVars, orch, watch>>

\* DELETE /api/stars/:sessionId/:messageId/:tag
RemoveStarTag ==
    /\ res.n < MaxTagRequests
    /\ \E sessionId \in StarSessions, messageId \in StarMessages, tag \in StarTagParams :
          LET r == DeleteStarTag(res, dbStars, sessionId, messageId, tag)
          IN /\ res' = r.res
             /\ dbStars' = r.stars
    /\ UNCHANGED <<dbSeq, dbTags, pIn, pOut, importVars, orch, watch>>

\* DELETE /api/tags/:id
RemoveTag ==
    /\ res.n < MaxTagRequests
    /\ \E id \in TagIdParams :
          LET r == DeleteTagById(res, dbTags, dbStars, id)
          IN /\ res' = r.res
             /\ dbTags' = r.tags
    /\ UNCHANGED <<dbStars, dbSeq, pIn, pOut, importVars, orch, watch>>

TagsNext == AddStar \/ RemoveStars \/ RemoveStarTag \/ RemoveTag

SpecTags == TagsInit /\ [][TagsNext]_vars

---------------------------------------------------------------------------
(* upsertSession on its own: the sessions table with its created_at column *)

MaxUpserts == 3

\* the values bound to the statement's parameters: created_at is no parameter
\* and takes its default, the time of the statement, when the row is inserted
Inserted(session, now) ==
    [f \in DOMAIN session \cup {"created_at"} |->
        IF f = "created_at" THEN now ELSE session[f]]

\* the session objects handed to upsertSession
UpsertArgs ==
    {[id            |-> id,
      tool          |-> v.tool,
      project       |-> v.project,
      project_path  |-> v.project_path,
      started_at    |-> v.started_at,
      ended_at      |-> v.ended_at,
      message_count |-> v.message_count,
      summary       |-> v.summary] :
        id \in {SlotId(1), SlotId(3)},
        v \in {[tool |-> "codex", project |-> Hi, project_path |-> NullT,
                started_at |-> "t1", ended_at |-> "t2", message_count |-> 2,
                summary |-> Hello],
               [tool |-> "gemini", project |-> Hello, project_path |-> Hi,
                started_at |-> "t2", ended_at |-> "t3", message_count |-> 3,
                summary |-> Hi],
               [tool |-> "claude", project |-> UnknownProject, project_path |-> NullT,
                started_at |-> Undefined, ended_at |-> Undefined, message_count |-> 0,
                summary |-> NullT]}}

UpsertInit ==
    /\ pIn = NoFile
    /\ pOut = NotRun
    /\ fs = EmptyFs
    /\ dbSessions = {}
    /\ dbMessages = {}
    /\ inflight = <<>>
    /\ last = NoCall
    /\ calls = 0
    /\ orch = OrchIdle
    /\ watch = WatchOff
    /\ ApiIdle

\* upsertSession(session), the statement running at time calls + 1
CallUpsert ==
    /\ calls < MaxUpserts
    /\ \E session \in UpsertArgs :
          /\ dbSessions' = upsertSession(dbSessions, Inserted(session, calls + 1))
          /\ pOut' = [fn |-> "upsertSession", arg |-> session]
    /\ calls' = calls + 1
    /\ UNCHANGED <<apiVars, pIn, fs, dbMessages, inflight, last, orch, watch>>

UpsertNext == CallUpsert

SpecUpsert == UpsertInit /\ [][UpsertNext]_vars

---------------------------------------------------------------------------
(* C9 *)

\* the lines of a text, read off chunk by chunk: the classes of its lines in
\* file order ("blank", "bad", or the decoded value)
RECURSIVE LineClasses(_, _, _)
LineClasses(s, i, st) ==
    \* st: "empty" (only white space so far), "one" (one JSON value), "bad"
    IF i > Len(s) \/ s[i].c = "nl"
    THEN <<st>> \o (IF i > Len(s) THEN <<>> ELSE LineClasses(s, i + 1, [k |-> "empty", v |-> JsonNull, sp |-> FALSE]))
    ELSE IF s[i].c = "sp"
         THEN LineClasses(s, i + 1, [st EXCEPT !.sp = (st.k # "empty")])
    ELSE IF s[i].c = "json" /\ st.k = "empty"
         THEN LineClasses(s, i + 1, [k |-> "one", v |-> s[i].v, sp |-> FALSE])
    ELSE LineClasses(s, i + 1, [k |-> "bad", v |-> JsonNull, sp |-> FALSE])

Classes(content) == LineClasses(content, 1, [k |-> "empty", v |-> JsonNull, sp |-> FALSE])

NonBlank(content) == SelectSeq(Classes(content), LAMBDA c : c.k # "empty")

Malformed(content) == SelectSeq(Classes(content), LAMBDA c : c.k = "bad")

Decoded(content) ==
    LET good == SelectSeq(Classes(content), LAMBDA c : c.k = "one")
    IN [i \in 1..Len(good) |-> good[i].v]

\* C9: parseJsonlFile on a readable file with N non-blank lines of which M do
\* not decode returns the N-M decoded records in file order and errors = M.
C9_ParseCounts ==
    (pOut.fn = "parseJsonlFile" /\ pIn.readable) =>
        /\ pOut.errors = Len(Malformed(pIn.content))
        /\ Len(pOut.messages) = Len(NonBlank(pIn.content)) - Len(Malformed(pIn.content))
        /\ pOut.messages = Decoded(pIn.content)

\* a malformed line between two decodable ones has been parsed
C9_Witness ==
    /\ pOut.fn = "parseJsonlFile"
    /\ pIn.readable
    /\ pOut.errors = 1
    /\ pOut.messages = <<ParseObjB, ParseObjA>>
    /\ pIn.content = <<Json(ParseObjB), NL, Garbage, NL, Json(ParseObjA)>>

---------------------------------------------------------------------------
(* The adapters: what a call did with each file, read off what it logged *)

\* the source file an entry of a call's log is about
SourceOf(tool, name) ==
    CASE tool = "claude" ->
            LET at == {ij \in (1..Len(fs.claude.entries)) \X {1} :
                          Append(fs.claude.entries[ij[1]].name,
                                 fs.claude.entries[ij[1]].files[ij[2]].stem) = name}
                ij == CHOOSE x \in at : TRUE
            IN fs.claude.entries[ij[1]].files[ij[2]]
      [] tool = "codex" -> CodexFileAt(fs, name)
      [] tool = "gemini" ->
            LET at == {ij \in (1..Len(fs.gemini.entries)) \X {1} :
                          <<fs.gemini.entries[ij[1]].name,
                            fs.gemini.entries[ij[1]].chats.files[ij[2]].stem>> = name}
                ij == CHOOSE x \in at : TRUE
            IN fs.gemini.entries[ij[1]].chats.files[ij[2]]

\* the ids a Gemini document gives its messages are all different
DistinctIds(msgs) ==
    \A i, j \in 1..Len(msgs) :
        (i # j /\ TruthyA(msgs[i].id)) => msgs[i].id # msgs[j].id

\* a well-formed source file: readable, every line (the document) decodes,
\* every record is an object, no two messages bear the same id
WellFormed(tool, file) ==
    /\ file.readable
    /\ IF tool = "gemini"
       THEN /\ parseJsonFile(file).ok
            /\ parseJsonFile(file).v.kind = "object"
            /\ \A i \in 1..Len(parseJsonFile(file).v.messages) :
                  parseJsonFile(file).v.messages[i].kind = "object"
            /\ DistinctIds(parseJsonFile(file).v.messages)
       ELSE /\ parseJsonlFile(file).errors = 0
            /\ Len(parseJsonlFile(file).messages) > 0
            /\ \A i \in 1..Len(parseJsonlFile(file).messages) :
                  parseJsonlFile(file).messages[i].kind = "object"

\* the ids sessionExists answers true for when the call reaches the j-th
\* entry of its log, the table having held the rows in before at its start
KnownBefore(before, trace, j) ==
    {r.id : r \in before} \cup {trace[i].id : i \in {h \in 1..(j - 1) : trace[h].ev = "imported"}}

ImportedBefore(call, j) == IF j = 1 THEN 0 ELSE call.trace[j - 1].imported

StoredBefore(call, j) == IF j = 1 THEN call.stored0 ELSE call.trace[j - 1].stored

C1_Step ==
    (last'.n = last.n + 1) =>
        /\ \A j \in 1..Len(last'.trace) :
              LET e == last'.trace[j] IN
              (e.id \in KnownBefore(dbSessions, last'.trace, j) /\ e.ev # "threw") =>
                  /\ e.ev # "imported"
                  /\ e.imported = ImportedBefore(last', j)
                  /\ e.stored = StoredBefore(last', j)
        /\ (last.n > 0 /\ last.tool = last'.tool /\ ~last.threw /\ ~last'.threw) =>
              /\ last'.imported = 0
              /\ dbSessions' = dbSessions

\* C1: in every adapter call a file whose session id is already stored is
\* skipped, leaving the imported count and the number of stored sessions as
\* they were, and a call that follows a call of the same adapter on the same
\* directory returns 0 and stores nothing.
C1_Idempotent == [][C1_Step]_vars

\* the Codex adapter was run twice: the second run found the session of the
\* first and returned 0
C1_Witness ==
    /\ last.n = 2
    /\ last.tool = "codex"
    /\ ~last.threw
    /\ last.imported = 0
    /\ \E j \in 1..Len(last.trace) : last.trace[j].ev = "exists"
    /\ dbSessions # {}
    /\ \A r \in dbSessions : r.tool = "codex"

C4_NeverThrows == ~last.threw

\* C10: a source file that cannot be read is not imported: the adapter stores
\* no session for it and does not count it.
C10_UnreadableSkipped ==
    \A j \in 1..Len(last.trace) :
        ~SourceOf(last.tool, last.trace[j].name).readable =>
            /\ last.trace[j].ev # "imported"
            /\ last.trace[j].imported = ImportedBefore(last, j)
            /\ last.trace[j].stored = StoredBefore(last, j)

---------------------------------------------------------------------------
(* The orchestrator *)

StatsIds(stats) == {stats[k].id : k \in 1..Len(stats)}

StatOf(stats, id) == stats[CHOOSE k \in 1..Len(stats) : stats[k].id = id].n

\* C3: importAllSessions never fails; every tool it has dealt with has its
\* one entry, which is 0 when the adapter threw, the directory was missing or
\* no importer is registered; it returns exactly one entry per enabled tool
\* and none for a disabled one, every enabled tool that has an importer
\* having been invoked whatever happened to the tools before it.
C3_OneEntryPerTool ==
    /\ orch.pc # "failed"
    /\ \A k \in 1..Len(orch.log) :
          /\ orch.log[k].id \in StatsIds(orch.stats)
          /\ (orch.log[k].outcome # "returned" \/ ~orch.log[k].dirExists) =>
                StatOf(orch.stats, orch.log[k].id) = 0
          /\ orch.log[k].outcome = "returned" =>
                StatOf(orch.stats, orch.log[k].id) = orch.log[k].value
    /\ \A k, h \in 1..Len(orch.stats) : orch.stats[k].id = orch.stats[h].id => k = h
    /\ orch.pc = "done" =>
          /\ StatsIds(orch.stats) =
                {orch.config[k].id : k \in {h \in 1..Len(orch.config) : orch.config[h].enabled}}
          /\ \A k \in 1..Len(orch.config) :
                (orch.config[k].enabled /\ orch.config[k].importer \in Tools) =>
                    \E h \in 1..Len(orch.log) :
                        /\ orch.log[h].id = orch.config[k].id
                        /\ orch.log[h].outcome # "noimporter"

\* a tool without importer came first, the Claude adapter threw, Codex had
\* no directory, Gemini was still invoked, and all four have their entry
C3_Witness ==
    /\ orch.pc = "done"
    /\ Len(orch.log) = 4
    /\ orch.log[1].outcome = "noimporter"
    /\ orch.log[2].outcome = "threw"
    /\ orch.log[3].outcome = "returned" /\ ~orch.log[3].dirExists
    /\ orch.log[4].outcome = "returned" /\ orch.log[4].id = "gemini"
    /\ orch.stats = <<[id |-> "cursor", n |-> 0], [id |-> "claude", n |-> 0],
                      [id |-> "codex", n |-> 0], [id |-> "gemini", n |-> 0]>>

---------------------------------------------------------------------------
(* The watcher: what it logged *)

\* the events and the imports of the log, in order
Happened == SelectSeq(watch.log, LAMBDA e : e.kind # "error")

\* the tool under whose directory a path lies
ToolUnder(path) ==
    CASE path.dirs[2] = ".claude" -> "claude"
      [] path.dirs[2] = ".codex"  -> "codex"
      [] path.dirs[2] = ".gemini" -> "gemini"
      [] OTHER -> "none"

\* a path ending in .jsonl, or ending in .json and containing session-
Qualifying(path) ==
    \/ path.ext = ".jsonl"
    \/ (path.ext = ".json" /\ \E k \in 1..Len(path.name) : path.name[k] = "session-")

\* C5: the events that start a timer are those of qualifying paths; an import
\* starts only when a full window has passed since the last such event, and
\* it is the only one for the events that came less than a window apart
\* before it: an event that comes within the window of its predecessor has
\* no import between the two, an event that comes later finds the import of
\* the burst before it done, and the last burst has either its import or its
\* one timer pending.
C5_Debounce ==
    LET L == Happened IN
    /\ \A j \in 1..Len(L) :
          /\ L[j].kind = "event" => Qualifying(L[j].path)
          /\ L[j].kind = "import" =>
                (L[j].ms >= DEBOUNCE_MS /\ j > 1 /\ L[j - 1].kind = "event")
          /\ (L[j].kind = "event" /\ L[j].ms < DEBOUNCE_MS) =>
                (j > 1 /\ L[j - 1].kind = "event")
          /\ (L[j].kind = "event" /\ L[j].ms >= DEBOUNCE_MS /\ j > 1) =>
                L[j - 1].kind = "import"
    /\ \A t \in watch.timers : Qualifying(t.path)
    /\ IF Len(L) > 0 /\ L[Len(L)].kind = "event"
       THEN \E t \in watch.timers : watch.timers = {t} /\ t.id = watch.importTimer
       ELSE watch.timers = {}

\* two events half a window apart and an event on another file: one import,
\* a full window after the second
C5_Witness ==
    /\ Len(Happened) = 3
    /\ watch.seen = 3
    /\ Happened[1].kind = "event"
    /\ Happened[2].kind = "event" /\ Happened[2].ms = DEBOUNCE_MS \div 2
    /\ Happened[3].kind = "import" /\ Happened[3].ms = DEBOUNCE_MS
    /\ watch.timers = {}

\* C6: when an import starts, it is the import of the tool of every event
\* that has come since the import before it.
C6_EventsServed ==
    LET L == Happened IN
    \A j \in 1..Len(L) :
        L[j].kind = "import" =>
            \A i \in 1..(j - 1) :
                (\A h \in i..(j - 1) : L[h].kind = "event") =>
                    ToolUnder(L[i].path) = L[j].tool

\* C7: at most one debounce timer is pending.
C7_OneTimer == Cardinality(watch.timers) <= 1

\* a second event came while the timer of the first was pending: the timer
\* pending is that of the second
C7_Witness ==
    /\ Len(watch.log) = 2
    /\ watch.log[2].kind = "event"
    /\ watch.log[2].ms < DEBOUNCE_MS
    /\ watch.importTimer = 2
    /\ watch.timers = {[id |-> 2, path |-> watch.log[2].path, left |-> DEBOUNCE_MS]}

\* C8: the watcher stays in service, and every qualifying event that comes
\* after an import has thrown has its timer pending or its import started.
C8_SurvivesThrow ==
    /\ watch.on
    /\ \A j \in 1..Len(watch.log) :
          watch.log[j].kind = "error" =>
              \A i \in (j + 1)..Len(watch.log) :
                  watch.log[i].kind = "event" =>
                      \/ \E h \in (i + 1)..Len(watch.log) : watch.log[h].kind = "import"
                      \/ \E t \in watch.timers : t.id = watch.importTimer

\* an import threw, an event came afterwards and its import was started
C8_Witness ==
    \E j, i, h \in 1..Len(watch.log) :
        /\ j < i /\ i < h
        /\ watch.log[j].kind = "error"
        /\ watch.log[i].kind = "event"
        /\ watch.log[h].kind = "import"
        /\ watch.on

---------------------------------------------------------------------------
(* The adapters: what they store of a file's records *)

\* the kind a record is of: its type, or its role if it is a response item
KindOf(tool, record) ==
    IF tool = "codex"
    THEN (IF record.type = "response_item" THEN record.payload.role ELSE record.type)
    ELSE record.type

\* C11: every stored message has type user or assistant, and comes from a
\* record of that kind, a Gemini record of type gemini being stored as
\* assistant; records of any other kind are not stored.
C11_OnlyUserAssistant ==
    \A m \in dbMessages :
        /\ m.type \in {"user", "assistant"}
        /\ m.position < Len(RawRecords(FileTool))
        /\ LET kind == KindOf(FileTool, RawRecords(FileTool)[m.position + 1]) IN
           IF FileTool = "gemini" /\ kind = "gemini" THEN m.type = "assistant"
           ELSE m.type = kind

\* a Codex file of a session_meta record, a response item of role developer
\* and one of role user was imported: one message; and a Gemini file of an
\* info message and a gemini message: one message, of type assistant
C11_Witness ==
    \/ /\ FileTool = "codex"
       /\ RawRecords("codex") = <<XMeta, XDeveloper, XUserLong>>
       /\ {m.type : m \in dbMessages} = {"user"}
       /\ Cardinality(dbMessages) = 1
    \/ /\ FileTool = "gemini"
       /\ RawRecords("gemini") = <<GInfo, GGemini>>
       /\ {m.type : m \in dbMessages} = {"assistant"}
       /\ Cardinality(dbMessages) = 1

\* the messages an adapter appends for the one source file, in the order it
\* appends them
Appended(tool) ==
    CASE tool = "claude" ->
            LET r == parseJsonlFile(fs.claude.entries[1].files[1]) IN
            ClaudeNormalize(ClaudeNormStart, r, PropLength(r), 0, SlotId(1)).messages
      [] tool = "codex" ->
            CodexNormalize(CodexNormStart, RawRecords("codex"), 0, SlotId(1)).messages
      [] tool = "gemini" ->
            GeminiNormalize(GeminiNormStart, RawRecords("gemini"), 0, SlotId(1)).messages

\* the zero-based indexes of the records that are messages
MessageIndexes(tool) ==
    {i - 1 : i \in {h \in 1..Len(RawRecords(tool)) :
                       KindOf(tool, RawRecords(tool)[h]) \in {"user", "assistant", "gemini"}}}

\* C12: the positions of the messages an adapter appends are strictly
\* increasing in the order of appending and are the zero-based indexes that
\* the message records have among all records of the file; every row stored
\* for the session is one of the appended messages, with that position.
C12_PositionsAreIndexes ==
    /\ \A k, h \in 1..Len(Appended(FileTool)) :
          k < h => Appended(FileTool)[k].position < Appended(FileTool)[h].position
    /\ \A k \in 1..Len(Appended(FileTool)) :
          Appended(FileTool)[k].position \in MessageIndexes(FileTool)
    /\ \A m \in dbMessages :
          /\ m.position \in MessageIndexes(FileTool)
          /\ \E k \in 1..Len(Appended(FileTool)) :
                m = MessageRow(SlotId(1), Appended(FileTool)[k])
    /\ \A m1, m2 \in dbMessages : m1.position = m2.position => m1 = m2

\* a Codex file of a user item, a session_meta record and an assistant item
\* was imported: the rows have the positions 0 and 2
C12_Witness ==
    /\ FileTool = "codex"
    /\ RawRecords("codex") = <<XUserLong, XMeta, XAssistant>>
    /\ {m.position : m \in dbMessages} = {0, 2}
    /\ Len(Appended("codex")) = 2

---------------------------------------------------------------------------
(* Masking *)

\* text.includes(part)
IncludesText(text, part) ==
    \E i \in 1..(Len(text) - Len(part) + 1) : SubSeq(text, i, i + Len(part) - 1) = part

\* C13: masking is idempotent: maskSecrets applied to a text that maskSecrets
\* returned gives that text back
C13_Idempotent ==
    (pOut.fn = "maskSecrets" /\ pOut.n = 2) => pOut.text = pOut.arg

RawText(tool, record) ==
    IF tool = "codex"
    THEN LET part == record.payload.content.parts[1]
         IN IF TruthyT(part.text) THEN part.text ELSE part.output_text
    ELSE record.content

---------------------------------------------------------------------------
(* Re-import *)

\* C16: once the session of a file is stored, no later import of the file,
\* grown or not, started by the watcher on a change or otherwise, changes the
\* row of the session or its messages: the file is skipped
C16_StoredOnce ==
    [][(\E s \in dbSessions : s.id = SlotId(1)) =>
          /\ dbSessions' = dbSessions
          /\ dbMessages' = dbMessages
          /\ last' # last =>
                /\ last'.imported = 0
                /\ \A j \in 1..Len(last'.trace) : last'.trace[j].ev = "exists"]_vars

\* a Codex file of one message was imported, the file then grew by a record,
\* and the import that the watcher started after that skipped the file
C16_Witness ==
    /\ FileTool = "codex"
    /\ \E s \in dbSessions : s.id = SlotId(1) /\ s.message_count = 1
    /\ Len(RawRecords("codex")) = 2
    /\ Cardinality(dbMessages) = 1
    /\ last.n = 2
    /\ last.stored0 = 1
    /\ last.imported = 0
    /\ \E i, j \in 1..Len(watch.log) :
          /\ i <= fs.mtime
          /\ fs.mtime < j
          /\ watch.log[i].kind = "import"
          /\ watch.log[j].kind = "import"
          /\ watch.log[j].tool = "codex"

---------------------------------------------------------------------------
(* Stars and tags *)

\* a request to add a tag was answered with success
StarAdded == res'.n = res.n + 1 /\ res'.route = "POST /api/stars/:sessionId/:messageId"
             /\ res'.status = 200

\* the key of the row a request to add a tag asks for
AskedKey(req) == <<req.sessionId, req.messageId, TrimText(req.tag)>>

\* C17: table stars never holds two rows of the same session, message and
\* tag, whatever tags are added and removed; adding a tag a message has
\* leaves the table as it is, and adding one it has not adds one row
C17_UniqueStars ==
    [][/\ \A r1, r2 \in dbStars' : StarKey(r1) = StarKey(r2) => r1 = r2
       /\ StarAdded =>
             IF \E r \in dbStars : StarKey(r) = AskedKey(res'.req)
             THEN dbStars' = dbStars
             ELSE /\ Cardinality(dbStars') = Cardinality(dbStars) + 1
                  /\ \E r \in dbStars' : StarKey(r) = AskedKey(res'.req)]_vars

\* the tag lesson was added to a message, then added again with a note: one
\* row, without the note
C17_Witness ==
    /\ res.route = "POST /api/stars/:sessionId/:messageId"
    /\ res.status = 200
    /\ res.n = 2
    /\ res.req.note = Hi
    /\ dbSeq = 1
    /\ dbStars = {[id |-> 1, session_id |-> res.req.sessionId,
                   message_id |-> res.req.messageId, tag |-> <<"l", "e", "s", "s", "o", "n">>, note |-> <<>>]}
    /\ res.body.tags = {<<"l", "e", "s", "s", "o", "n">>}

\* a request to delete a tag was answered
TagDeleteAnswered == res'.n = res.n + 1 /\ res'.route = "DELETE /api/tags/:id"

\* C18: a request to delete a tag that some star uses is answered 409 with
\* the error and the number of stars that use it, and leaves both tables as
\* they are; a tag no star uses is removed from table tags and nothing else
\* changes
C18_DeleteUnusedOnly ==
    [][TagDeleteAnswered =>
          LET id == res'.req.id
              usage == Cardinality({r \in dbStars : r.tag = id})
          IN /\ dbStars' = dbStars
             /\ IF usage > 0
                THEN /\ res'.status = 409
                     /\ res'.body.error = "Tag is in use"
                     /\ res'.body.count = usage
                     /\ dbTags' = dbTags
                ELSE /\ res'.status = 200
                     /\ dbTags' = {t \in dbTags : t.id # id}]_vars

\* two stars use the tag lesson and the request to delete it was refused
C18_Witness ==
    /\ res.route = "DELETE /api/tags/:id"
    /\ res.status = 409
    /\ res.req.id = <<"l", "e", "s", "s", "o", "n">>
    /\ res.body.count = 2
    /\ \E t \in dbTags : t.id = <<"l", "e", "s", "s", "o", "n">>

---------------------------------------------------------------------------
(* A Claude Code log of two records *)

\* C19: after importClaudeSessions on a file of a user record with string
\* content and a timestamp and an assistant record whose content is a list
\* of a text part and a thinking part, one session is stored with started_at
\* and ended_at that timestamp and message_count 2, and the second message
\* has the text part for its content and the thinking part for its thinking
C19_ClaudeTwoRecords ==
    (/\ FileTool = "claude"
     /\ RawRecords("claude") = <<CUser, CAssistantBare>>
     /\ last.tool = "claude"
     /\ ~last.threw) =>
        /\ \E s \in dbSessions :
              /\ dbSessions = {s}
              /\ s.id = SlotId(1)
              /\ s.started_at = CUser.timestamp
              /\ s.ended_at = CUser.timestamp
              /\ s.message_count = 2
        /\ \E m \in dbMessages :
              /\ m.position = 1
              /\ m.content = Hi
              /\ m.thinking = <<"r">>

---------------------------------------------------------------------------
(* Summaries *)

---------------------------------------------------------------------------
(* Session timestamps *)

\* the timestamps the records carry, in file order
Stamps(records) ==
    SelectSeq([k \in 1..Len(records) |-> records[k].timestamp], TruthyA)

\* C21: the one file of any tool being imported, the stored session's
\* started_at is the timestamp of the first raw record that carries one and
\* its ended_at that of the last, and both are null when no record carries one
C21_FirstAndLastStamp ==
    (last.tool = FileTool /\ ~last.threw) =>
        \A s \in dbSessions :
            LET stamps == Stamps(RawRecords(FileTool)) IN
            /\ s.started_at = IF stamps = <<>> THEN Undefined ELSE stamps[1]
            /\ s.ended_at = IF stamps = <<>> THEN Undefined ELSE stamps[Len(stamps)]

---------------------------------------------------------------------------
(* upsertSession on a stored id *)

\* C22: upsertSession on an id that is already stored sets the row's
\* message_count, ended_at and summary to the new values, leaves its tool,
\* project, project_path, started_at and created_at as they were, and adds
\* no second row for the id; the other rows stay as they are
C22_UpsertUpdatesThree ==
    [][\A s \in dbSessions :
          (pOut'.fn = "upsertSession" /\ pOut'.arg.id = s.id) =>
             /\ \E r \in dbSessions' :
                   /\ {x \in dbSessions' : x.id = s.id} = {r}
                   /\ r.message_count = pOut'.arg.message_count
                   /\ r.ended_at = pOut'.arg.ended_at
                   /\ r.summary = pOut'.arg.summary
                   /\ r.tool = s.tool
                   /\ r.project = s.project
                   /\ r.project_path = s.project_path
                   /\ r.started_at = s.started_at
                   /\ r.created_at = s.created_at
             /\ {x \in dbSessions' : x.id # s.id} = {x \in dbSessions : x.id # s.id}]_vars

\* a row stored by an earlier statement has taken the three values of the
\* last upsert and kept its tool, though the upsert named another
C22_Witness ==
    /\ pOut.fn = "upsertSession"
    /\ \E r \in dbSessions :
          /\ r.id = pOut.arg.id
          /\ r.created_at < calls
          /\ r.tool = "codex"
          /\ pOut.arg.tool = "gemini"
          /\ r.message_count = 3
          /\ r.started_at = "t1"

---------------------------------------------------------------------------
(* An event while an import is running *)

\* C23: a handler that runs while an import a timer started is under way
\* leaves that import as it is (it is neither dropped nor started again, and
\* nothing is stored by the handler); a qualifying event leaves exactly one
\* timer pending, of a full window, and any other event leaves the timers as
\* they were; the import leaves only by running to its end
C23_RunningImportUntouched ==
    [][/\ (inflight # <<>> /\ watch'.seen = watch.seen + 1) =>
             /\ inflight' = inflight
             /\ dbSessions' = dbSessions
             /\ dbMessages' = dbMessages
             /\ last' = last
             /\ IF watch'.log # watch.log
                THEN \E t \in watch'.timers :
                        /\ watch'.timers = {t}
                        /\ t.left = DEBOUNCE_MS
                        /\ t.id = watch'.importTimer
                ELSE watch'.timers = watch.timers
       /\ Len(inflight') < Len(inflight) =>
             /\ Len(inflight') = Len(inflight) - 1
             /\ last'.tool = "codex"
             /\ last'.n = last.n + 1]_vars

\* the Codex import of a fired timer is under way, two qualifying events have
\* come since it started, and one timer is pending
C23_Witness ==
    LET L == Happened IN
    /\ Len(inflight) = 1
    /\ Len(L) = 4
    /\ L[2].kind = "import" /\ L[2].tool = "codex"
    /\ L[3].kind = "event"
    /\ L[4].kind = "event"
    /\ Cardinality(watch.timers) = 1
    /\ dbSessions = {}

---------------------------------------------------------------------------
(* Masking before storing *)

\* C24: what is stored of a message's content is what maskSecrets makes of
\* the record's text, and no summary, stored or returned with the session by
\* GET /api/sessions/:id, holds a key that a record's text held
C24_MaskedBeforeStored ==
    /\ \A m \in dbMessages :
          m.content = maskSecrets(RawText(FileTool, RawRecords(FileTool)[m.position + 1]))
    /\ \A s \in dbSessions : ~IncludesText(s.summary, SkKey)
    /\ (res.route = "GET /api/sessions/:id" /\ res.status = 200) =>
          \A s \in res.body.session : ~IncludesText(s.summary, SkKey)

---------------------------------------------------------------------------
(* One adapter at a time *)

\* C25: during a pass of importAllSessions every tool before the current one
\* has ended (returned or thrown) and is in the log; while the Codex adapter
\* of the pass waits for its file list nothing else stores anything; and the
\* watcher is on, and an import of its own under way, only when the pass has
\* returned with all its tools ended
C25_OneAdapterAtATime ==
    /\ [](/\ orch.pc \in {"run", "await"} =>
                /\ Len(orch.log) = orch.i - 1
                /\ ~watch.on
                /\ inflight = <<>>
          /\ (watch.on \/ watch.log # <<>>) =>
                /\ orch.pc = "done"
                /\ Len(orch.log) = Len(orch.tools))
    /\ [][orch.pc = "await" =>
             \/ orch'.pc = "run" /\ orch'.i = orch.i + 1
             \/ (dbSessions' = dbSessions /\ dbMessages' = dbMessages /\ orch' = orch)]_vars

\* the pass ran its three adapters, Codex having waited for its file list and
\* stored a session, before the watcher was started, which has since run an
\* import of its own
C25_Witness ==
    /\ orch.pc = "done"
    /\ Len(orch.log) = 3
    /\ orch.log[2].id = "codex" /\ orch.log[2].dirExists /\ orch.log[2].value = 1
    /\ watch.on
    /\ \E k \in 1..Len(watch.log) : watch.log[k].kind = "import"

---------------------------------------------------------------------------
(* Overlapping runs *)

RECURSIVE SumCounts(_)
SumCounts(returned) ==
    IF returned = <<>> THEN 0 ELSE returned[1].count + SumCounts(Tail(returned))

\* C26: no session id has two rows, and when the runs of importCodexSessions
\* that were started have all returned, overlapping or not, the counts they
\* returned add up to the number of sessions created
C26_OverlapCountsOnce ==
    /\ \A s1, s2 \in dbSessions : s1.id = s2.id => s1 = s2
    /\ (pOut.fn = "importCodexSessions" /\ inflight = <<>> /\ pOut.threw = {}) =>
          SumCounts(pOut.returned) = Cardinality(dbSessions)

\* the first run found one file, a second file arrived, the second run
\* started while the first was waiting and found both; the first ran its
\* loop first: each imported one session
C26_Witness ==
    /\ pOut.fn = "importCodexSessions"
    /\ pOut.overlapped
    /\ inflight = <<>>
    /\ pOut.returned = <<[run |-> 1, count |-> 1], [run |-> 2, count |-> 1]>>
    /\ Cardinality(dbSessions) = 2

---------------------------------------------------------------------------
(* The directories of the start-up pass and of the watcher *)

\* C27: the start-up pass and the watcher's imports scan the same layout:
\* when the pass has returned and its adapter of a tool returned normally, an
\* import of that tool started by the watcher on the same files finds
\* nothing that the pass had not found, and returns 0
C27_SameLayout ==
    (/\ orch.pc = "done"
     /\ last.n > Len(orch.log)
     /\ ~last.threw
     /\ watch.on
     /\ \E k \in 1..Len(orch.log) :
           orch.log[k].id = last.tool /\ orch.log[k].outcome = "returned") =>
        last.imported = 0

---------------------------------------------------------------------------
(* The counts of a pass *)

\* C28: the entry importAllSessions holds for a tool is the number of
\* session rows the tool's adapter created during the pass, the table having
\* been empty before it, whether the adapter returned or threw
C28_CountIsCreated ==
    \A k \in 1..Len(orch.stats) :
        orch.stats[k].n = Cardinality({s \in dbSessions : s.tool = orch.stats[k].id})

---------------------------------------------------------------------------
(* The messages of other sessions *)

\* C29: no import takes a message from a session: every row of the messages
\* table is, after any step, still there with its id and its session_id
C29_MessagesStay ==
    [][\A m \in dbMessages :
          \E r \in dbMessages' : r.id = m.id /\ r.session_id = m.session_id]_vars

---------------------------------------------------------------------------
(* A session whose messages could not be stored *)

\* a session that counts messages and has none in the messages table
Orphaned ==
    \E s \in dbSessions : s.message_count > 0 /\ getMessages(dbMessages, s.id) = {}

\* C30: a session that is stored with a positive message_count and without
\* its messages, insertMessages having thrown after upsertSession, gets its
\* messages from a later import of the file
C30_MessagesEventually == Orphaned ~> ~Orphaned

====
